---------------------------- MODULE Spec2Model ----------------------------
(***************************************************************************)
(* A model of lib/index.js of mw-ocg-texter: the Formatter (line layout),  *)
(* the Visitor (document tree dispatch) and cleanMath (macro interpreter). *)
(*                                                                         *)
(* Text is a sequence of one-character strings.  Characters outside ASCII  *)
(* are written by code point, "U+2082".                                    *)
(***************************************************************************)
EXTENDS Integers, Sequences, FiniteSets, TLC

VARIABLES
    options,    \* the options object handed to Formatter and Visitor
    fmt,        \* the Formatter object (buffer, flags, state stack, output)
    hist,       \* the last Formatter call made by the driver of SpecF
    nops,       \* number of Formatter calls made so far
    minput,     \* the argument of the running top-level cleanMath call
    mstack,     \* the activation records of cleanMath, innermost last
    mstatus,    \* "idle", "run", "done" (returned) or "threw"
    mret,       \* the value the top-level cleanMath call returned
    warned,     \* the own keys of the module-level object `warned`
    warnLog,    \* the console.warn calls made, in order
    ncalls,     \* number of top-level cleanMath calls started
    doc,        \* the node visitor.visit is called on, with its subtree
    tasks,      \* what the running visit has left to do, innermost last
    sinks,      \* the collectors installed as this.format, innermost last
    currentLanguage,
    currentDirectionality,
    listInfo,   \* the Visitor's list record
    usedLanguages,
    templates,  \* the keys of the Visitor's object `templates`
    vstatus,    \* "idle", "run", "done" (visit returned) or "threw"
    trace,      \* the calls made on this.format, in order
    lastVisit,  \* the node of the latest visit and the handler picked
    lastRet,    \* the latest return of visit: the state before and after
    metabook,   \* the collection generateOutput is called on
    gpc,        \* where generateOutput (and convert around it) stands
    item,       \* the index of the current item in the manifest order
    started,    \* the articles whose lookup was started, in order
    flushing,   \* the flush() calls whose promise is still pending
    flushed,    \* the articles whose flush() promise resolved, in order
    writeStream,    \* the output stream: "ok", "failed" (a write failed)
    bookLanguages,  \* the set usedLanguages of generateOutput
    err         \* the error the conversion promise is rejected with

fvars == <<options, fmt, hist, nops>>
mvars == <<minput, mstack, mstatus, mret, warned, warnLog, ncalls>>
vvars == <<doc, tasks, sinks, currentLanguage, currentDirectionality,
           listInfo, usedLanguages, templates, vstatus, trace, lastVisit,
           lastRet>>
gvars == <<metabook, gpc, item, started, flushing, flushed, writeStream,
           bookLanguages, err>>
vars == <<fvars, mvars, vvars, gvars>>

----------------------------------------------------------------------------
(* Characters and strings                                                  *)

NL == "\n"
NBSP == "U+00A0"
\* what the regular expression class \s matches, among the model's characters
WS == {" ", NL, "\t", "\r", NBSP}
\* the value of a state popped off an empty stack
Undefined == [undefined |-> TRUE]

RECURSIVE Concat(_)
Concat(ss) == IF ss = <<>> THEN <<>> ELSE Head(ss) \o Concat(Tail(ss))

RECURSIVE Spaces(_)
Spaces(n) == IF n <= 0 THEN <<>> ELSE <<" ">> \o Spaces(n - 1)

RECURSIVE StripLeft(_)
StripLeft(s) ==
    IF s # <<>> /\ Head(s) \in WS THEN StripLeft(Tail(s)) ELSE s

RECURSIVE StripRight(_)
StripRight(s) ==
    IF s # <<>> /\ s[Len(s)] \in WS THEN StripRight(SubSeq(s, 1, Len(s) - 1)) ELSE s

Trim(s) == StripRight(StripLeft(s))

\* s.replace(/\s+/g, ' ')
RECURSIVE CollapseWS(_)
CollapseWS(s) ==
    IF s = <<>> THEN <<>>
    ELSE IF Head(s) \in WS THEN <<" ">> \o CollapseWS(StripLeft(s))
    ELSE <<Head(s)>> \o CollapseWS(Tail(s))

----------------------------------------------------------------------------
(* The sub/superscript tables                                              *)

submap ==
       "0" :> "U+2080"
    @@ "1" :> "U+2081"
    @@ "2" :> "U+2082"
    @@ "3" :> "U+2083"
    @@ "4" :> "U+2084"
    @@ "5" :> "U+2085"
    @@ "6" :> "U+2086"
    @@ "7" :> "U+2087"
    @@ "8" :> "U+2088"
    @@ "9" :> "U+2089"
    @@ "+" :> "U+208A"
    @@ "-" :> "U+208B"
    @@ "=" :> "U+208C"
    @@ "(" :> "U+208D"
    @@ ")" :> "U+208E"
    @@ "a" :> "U+2090"
    @@ "e" :> "U+2091"
    @@ "o" :> "U+2092"
    @@ "x" :> "U+2093"
    @@ "h" :> "U+2095"
    @@ "k" :> "U+2096"
    @@ "l" :> "U+2097"
    @@ "m" :> "U+2098"
    @@ "n" :> "U+2099"
    @@ "p" :> "U+209A"
    @@ "s" :> "U+209B"
    @@ "t" :> "U+209C"
    @@ " " :> " "
    @@ NBSP :> NBSP

supmap ==
       "2" :> "U+00B2"
    @@ "3" :> "U+00B3"
    @@ "1" :> "U+00B9"
    @@ "0" :> "U+2070"
    @@ "i" :> "U+2071"
    @@ "4" :> "U+2074"
    @@ "5" :> "U+2075"
    @@ "6" :> "U+2076"
    @@ "7" :> "U+2077"
    @@ "8" :> "U+2078"
    @@ "9" :> "U+2079"
    @@ "+" :> "U+207A"
    @@ "-" :> "U+207B"
    @@ "=" :> "U+207C"
    @@ "(" :> "U+207D"
    @@ ")" :> "U+207E"
    @@ "n" :> "U+207F"
    @@ " " :> " "
    @@ NBSP :> NBSP

----------------------------------------------------------------------------
(* Formatter                                                               *)

DefaultColumns == 75
DefaultTabWidth == 2
MinUsable == 20

Columns == IF options.column = 0 THEN DefaultColumns ELSE options.column
TabWidth == IF options.tabWidth = 0 THEN DefaultTabWidth ELSE options.tabWidth

\* out and completed are the state of this.outStream: the chunks handed to
\* its write, in order, and how many of them it has completed
Formatter ==
    [buffer |-> <<>>, newLine |-> TRUE, newPara |-> TRUE,
     stateStack |-> <<>>, state |-> [indent |-> 0, tag |-> FALSE],
     out |-> <<>>, completed |-> 0, exc |-> FALSE]

\* the wrap function _makeWrap(indent, tag) returns, applied to text t; a
\* state records the two arguments its wrap function was made from.  With
\* wrapping on, the text is laid out by linewrap(columns, start): for a text
\* that fits the line this is the start indent and the collapsed text.
Wrap(st, t) ==
    IF options.noWrap
    THEN Spaces(IF st.tag THEN st.indent - TabWidth ELSE st.indent)
            \o Trim(CollapseWS(t))
    ELSE LET ind == IF st.indent + MinUsable >= Columns
                    THEN Columns - MinUsable ELSE st.indent
         IN  Spaces(IF st.tag THEN ind - TabWidth ELSE ind)
                \o Trim(CollapseWS(t))

\* a _write that returns when the stream has completed the chunk
FWriteAwaited(F, text) ==
    [F EXCEPT !.out = Append(@, text), !.completed = Len(F.out) + 1]

\* this.outStream.write(text, 'utf8'): no callback is passed and the
\* result is not looked at, the chunk is the stream's to complete
FWrite(F, text) == [F EXCEPT !.out = Append(@, text)]

\* a lineBreak that writes the terminator without the buffered text
FLineBreakDropsText(F) ==
    IF F.newLine THEN F
    ELSE [FWrite(F, <<NL>>) EXCEPT !.buffer = <<>>, !.newLine = TRUE]

\* a lineBreak that leaves the written text in the buffer
FLineBreakKeepsBuffer(F) ==
    IF F.newLine THEN F
    ELSE IF F.state = Undefined THEN [F EXCEPT !.exc = TRUE]
    ELSE [FWrite(FWrite(F, Wrap(F.state, Concat(F.buffer))), <<NL>>)
            EXCEPT !.newLine = TRUE]

\* Formatter.prototype.lineBreak; this.state.wrap of an undefined state
\* throws a TypeError before anything is written
FLineBreak(F) ==
    IF F.newLine THEN F
    ELSE IF F.state = Undefined THEN [F EXCEPT !.exc = TRUE]
    ELSE [FWrite(FWrite(F, Wrap(F.state, Concat(F.buffer))), <<NL>>)
            EXCEPT !.buffer = <<>>, !.newLine = TRUE]

\* a paragraphBreak that forgets the newPara test
FParagraphBreakAlways(F) ==
    LET F1 == IF ~F.newLine THEN FLineBreak(F) ELSE F
    IN  IF F1.exc THEN F1
        ELSE [FWrite(F1, <<NL>>) EXCEPT !.newPara = TRUE]

\* a paragraphBreak that does not end the line it is called in
FParagraphBreakMidLine(F) ==
    IF F.newPara THEN F
    ELSE [FWrite(F, <<NL>>) EXCEPT !.newPara = TRUE]

FParagraphBreak(F) ==
    IF F.newPara THEN F
    ELSE LET F1 == IF ~F.newLine THEN FLineBreak(F) ELSE F
         IN  IF F1.exc THEN F1
             ELSE [FWrite(F1, <<NL>>) EXCEPT !.newPara = TRUE]

\* a write that keeps the leading whitespace
FTextNoStrip(F, text) ==
    IF F.newLine \/ F.newPara
    THEN IF StripLeft(text) = <<>> THEN F
         ELSE [F EXCEPT !.newLine = FALSE, !.newPara = FALSE,
                        !.buffer = Append(@, text)]
    ELSE [F EXCEPT !.buffer = Append(@, text)]

\* Formatter.prototype.write
FText(F, text) ==
    IF F.newLine \/ F.newPara
    THEN LET t == StripLeft(text)
         IN  IF t = <<>> THEN F
             ELSE [F EXCEPT !.newLine = FALSE, !.newPara = FALSE,
                            !.buffer = Append(@, t)]
    ELSE [F EXCEPT !.buffer = Append(@, text)]

\* Formatter.prototype.indent; tag <<>> stands for no (or an empty) tag.
\* The state is pushed before this.state.indent is read, so with an
\* undefined state the push stays and the TypeError follows.
FIndent(F, tag) ==
    LET F1 == FLineBreak(F)
    IN  IF F1.exc THEN F1
        ELSE LET F2 == [F1 EXCEPT !.stateStack = Append(@, F1.state)]
             IN  IF F1.state = Undefined THEN [F2 EXCEPT !.exc = TRUE]
                 ELSE LET F3 == [F2 EXCEPT !.state =
                                    [indent |-> F1.state.indent + TabWidth,
                                     tag |-> tag # <<>>]]
                      IN  IF tag # <<>> THEN FText(FText(F3, tag), <<" ">>)
                          ELSE F3

\* Formatter.prototype.dedent; pop() of an empty array is undefined
FDedent(F) ==
    LET F1 == FLineBreak(F)
    IN  IF F1.exc THEN F1
        ELSE IF F1.stateStack = <<>> THEN [F1 EXCEPT !.state = Undefined]
        ELSE [F1 EXCEPT !.state = F1.stateStack[Len(F1.stateStack)],
                        !.stateStack = SubSeq(@, 1, Len(@) - 1)]

\* Formatter.prototype.flush: the line break, then an empty write whose
\* callback resolves the promise
FFlush(F) ==
    LET F1 == FLineBreak(F)
    IN  IF F1.exc THEN F1 ELSE FWrite(F1, <<>>)

----------------------------------------------------------------------------
(* The document tree and the Visitor at rest                               *)

\* a DOM node; an attribute that is absent reads "" (every use in the code
\* treats the empty value like the absent one)
NoData == [kind |-> "none", href |-> "", extsrc |-> <<>>]

Element(name, kids) ==
    [nodeType |-> "element", nodeName |-> name, data |-> <<>>,
     lang |-> "", dir |-> "", typeof |-> "", rel |-> "", class |-> {},
     style |-> "", dataMw |-> NoData, about |-> "", kids |-> kids]

Text(data) ==
    [nodeType |-> "text", nodeName |-> "#text", data |-> data,
     lang |-> "", dir |-> "", typeof |-> "", rel |-> "", class |-> {},
     style |-> "", dataMw |-> NoData, about |-> "", kids |-> <<>>]

Comment ==
    [nodeType |-> "comment", nodeName |-> "#comment", data |-> <<>>,
     lang |-> "", dir |-> "", typeof |-> "", rel |-> "", class |-> {},
     style |-> "", dataMw |-> NoData, about |-> "", kids |-> <<>>]

\* the attribute data-mw: absent, not JSON, JSON without the fields the
\* code reads, the math extension's {body: {extsrc}} or a transclusion's
\* {parts: [{template: {target: {href}}}]}
MathData(src) == [kind |-> "math", href |-> "", extsrc |-> src]
TemplateData(href) == [kind |-> "template", href |-> href, extsrc |-> <<>>]
\* a data-mw that JSON.parse rejects, and the JSON text {}
BadJSON == [kind |-> "invalid", href |-> "", extsrc |-> <<>>]
OtherJSON == [kind |-> "other", href |-> "", extsrc |-> <<>>]

\* the handler visit picks for an element: the visit rule that applied
\* (by) and the value that selected the method (name)
Handler(by, name) == [by |-> by, name |-> name]

NoHandler == Handler("", "")

\* this.listInfo; the properties type, num and sawDT read undefined until
\* they are set
RootListInfo == [type |-> "", num |-> 0, depth |-> 0, sawDT |-> FALSE]
NoVisit ==
    [node |-> Comment, handler |-> NoHandler, lang |-> "", dir |-> ""]
\* what Snapshot gives for a Visitor at rest
RestSnapshot ==
    [lang |-> "en", dir |-> "ltr", depth |-> 0, sinks |-> 0,
     listInfo |-> RootListInfo, used |-> {}, ntrace |-> 0]
NoReturn == [node |-> Comment, before |-> RestSnapshot, after |-> RestSnapshot]

\* no collection: generateOutput is not called
NoError == [kind |-> "", exitCode |-> 0]
NoBook ==
    [title |-> <<>>, subtitle |-> <<>>, summary |-> <<>>, lang |-> "",
     items |-> <<>>]
DriverIdle ==
    /\ metabook = NoBook
    /\ gpc = "idle"
    /\ item = 0
    /\ started = <<>>
    /\ flushing = {}
    /\ flushed = <<>>
    /\ writeStream = "ok"
    /\ bookLanguages = {}
    /\ err = NoError

\* a Visitor that is not used
VisitorIdle ==
    /\ doc = Comment
    /\ tasks = <<>>
    /\ sinks = <<>>
    /\ currentLanguage = "en"
    /\ currentDirectionality = "ltr"
    /\ listInfo = RootListInfo
    /\ usedLanguages = {}
    /\ templates = {}
    /\ vstatus = "idle"
    /\ trace = <<>>
    /\ lastVisit = NoVisit
    /\ lastRet = NoReturn

----------------------------------------------------------------------------
(* SpecF: any sequence of Formatter calls                                  *)

MaxOps == 5

Texts == {<<"a">>, <<" ">>, <<" ", "b">>}
Tags == {<<>>, <<"*">>}

\* the options the code reads; 0 and "" stand for an option not given
DefaultOptions ==
    [noWrap |-> FALSE, column |-> 0, tabWidth |-> 0, noRefs |-> FALSE,
     hasChapters |-> FALSE, singleItem |-> FALSE, lang |-> "", dir |-> ""]

OptionSets ==
    {[DefaultOptions EXCEPT !.noWrap = w] : w \in BOOLEAN}

MathIdle ==
    /\ minput = <<>>
    /\ mstack = <<>>
    /\ mstatus = "idle"
    /\ mret = <<>>
    /\ warned = {}
    /\ warnLog = <<>>
    /\ ncalls = 0

InitF ==
    /\ MathIdle
    /\ VisitorIdle
    /\ DriverIdle
    /\ options \in OptionSets
    /\ fmt = Formatter
    /\ hist = [op |-> "new", arg |-> <<>>, outLen |-> 0, newPara |-> TRUE,
               newLine |-> TRUE,
               exc |-> FALSE]
    /\ nops = 0

\* one call by the Formatter's user; an exception is the caller's to catch,
\* the object keeps what the call did before it
Call(op, arg, F) ==
    /\ nops < MaxOps
    /\ nops' = nops + 1
    /\ hist' = [op |-> op, arg |-> arg, outLen |-> Len(fmt.out),
                newPara |-> fmt.newPara, newLine |-> fmt.newLine,
                exc |-> F.exc]
    /\ fmt' = [F EXCEPT !.exc = FALSE]
    /\ UNCHANGED <<options, mvars, vvars, gvars>>

DoWrite == \E t \in Texts : Call("write", t, FText(fmt, t))
DoLineBreak == Call("lineBreak", <<>>, FLineBreak(fmt))
DoParagraphBreak == Call("paragraphBreak", <<>>, FParagraphBreak(fmt))
DoIndent == \E t \in Tags : Call("indent", t, FIndent(fmt, t))
DoDedent == Call("dedent", <<>>, FDedent(fmt))
DoFlush == Call("flush", <<>>, FFlush(fmt))

NextF ==
    \/ DoWrite
    \/ DoLineBreak
    \/ DoParagraphBreak
    \/ DoIndent
    \/ DoDedent
    \/ DoFlush

SpecF == InitF /\ [][NextF]_vars

----------------------------------------------------------------------------
(* The output as lines                                                     *)

Output == Concat(fmt.out)

\* the text after the last line terminator is an unfinished line
NLPositions(s) == {i \in 1..Len(s) : s[i] = NL}
LineStart(s, i) ==
    LET before == {j \in NLPositions(s) : j < i}
    IN  IF before = {} THEN 1
        ELSE (CHOOSE j \in before : \A k \in before : k <= j) + 1
\* the terminated line ending at position i (a terminator) is blank
BlankLineAt(s, i) == \A k \in LineStart(s, i)..(i - 1) : s[k] \in WS
BlankLines(s) == {i \in NLPositions(s) : BlankLineAt(s, i)}
TwoBlankLines(s) ==
    \E i, j \in BlankLines(s) : i < j /\ LineStart(s, j) = i + 1


\* the output as it was before the last call
OutputBefore == Concat(SubSeq(fmt.out, 1, hist.outLen))

\* C1: the output never holds two consecutive blank lines; a paragraphBreak()
\* made at paragraph start emits nothing, and one that returns after text was
\* written adds exactly one blank line, so N >= 1 consecutive calls add one.
C1_OneBlankLine ==
    /\ ~TwoBlankLines(Output)
    /\ (Output # <<>> => Output[1] # NL)
    /\ (hist.op = "paragraphBreak" /\ ~hist.exc) =>
          /\ fmt.newPara
          /\ IF hist.newPara
             THEN Len(fmt.out) = hist.outLen
             ELSE Cardinality(BlankLines(Output))
                    = Cardinality(BlankLines(OutputBefore)) + 1

\* a second paragraphBreak() in a row, after a first one that emitted the
\* blank line following some text
C1_Witness ==
    /\ hist.op = "paragraphBreak"
    /\ hist.newPara
    /\ Len(Output) >= 3
    /\ Output[Len(Output)] = NL
    /\ Output[Len(Output) - 1] = NL
    /\ Output[Len(Output) - 2] \notin WS

----------------------------------------------------------------------------
(* cleanMath: the macro interpreter                                        *)

Letters ==
    {"a", "b", "c", "d", "e", "f", "g", "h", "i", "j", "k", "l", "m",
     "n", "o", "p", "q", "r", "s", "t", "u", "v", "w", "x", "y", "z",
     "A", "B", "C", "D", "E", "F", "G", "H", "I", "J", "K", "L", "M",
     "N", "O", "P", "Q", "R", "S", "T", "U", "V", "W", "X", "Y", "Z"}
\* what . does not match
LineTerminators == {NL, "\r"}
Openers == {"{", "["}
Delimiters == {"{", "}", "[", "]"}

\* the entries of funcMap that return a fixed string
FuncConst ==
       <<"c", "d", "o", "t">> :> <<"U+00B7">>
    @@ <<"c", "d", "o", "t", "s">> :> <<"U+22EF">>
    @@ <<"d", "o", "t", "s">> :> <<"U+2026">>
    @@ <<"l", "d", "o", "t", "s">> :> <<"U+2026">>
    @@ <<"a", "l", "p", "h", "a">> :> <<"U+03B1">>
    @@ <<"b", "e", "t", "a">> :> <<"U+03B2">>
    @@ <<"g", "a", "m", "m", "a">> :> <<"U+03B3">>
    @@ <<"d", "e", "l", "t", "a">> :> <<"U+03B4">>
    @@ <<"e", "p", "s", "i", "l", "o", "n">> :> <<"U+03F5">>
    @@ <<"v", "a", "r", "e", "p", "s", "i", "l", "o", "n">> :> <<"U+03B5">>
    @@ <<"z", "e", "t", "a">> :> <<"U+03B6">>
    @@ <<"e", "t", "a">> :> <<"U+03B7">>
    @@ <<"t", "h", "e", "t", "a">> :> <<"U+03B8">>
    @@ <<"v", "a", "r", "t", "h", "e", "t", "a">> :> <<"U+03D1">>
    @@ <<"i", "o", "t", "a">> :> <<"U+03B9">>
    @@ <<"k", "a", "p", "p", "a">> :> <<"U+03BA">>
    @@ <<"l", "a", "m", "b", "d", "a">> :> <<"U+03BB">>
    @@ <<"m", "u">> :> <<"U+03BC">>
    @@ <<"n", "u">> :> <<"U+03BD">>
    @@ <<"x", "i">> :> <<"U+03BE">>
    @@ <<"p", "i">> :> <<"U+03C0">>
    @@ <<"v", "a", "r", "p", "i">> :> <<"U+03D6">>
    @@ <<"r", "h", "o">> :> <<"U+03C1">>
    @@ <<"v", "a", "r", "r", "h", "o">> :> <<"U+03F1">>
    @@ <<"s", "i", "g", "m", "a">> :> <<"U+03C3">>
    @@ <<"v", "a", "r", "s", "i", "g", "m", "a">> :> <<"U+03C2">>
    @@ <<"t", "a", "u">> :> <<"U+03C4">>
    @@ <<"u", "p", "s", "i", "l", "o", "n">> :> <<"U+03C5">>
    @@ <<"p", "h", "i">> :> <<"U+03D5">>
    @@ <<"v", "a", "r", "p", "h", "i">> :> <<"U+03C6">>
    @@ <<"c", "h", "i">> :> <<"U+03C7">>
    @@ <<"p", "s", "i">> :> <<"U+03C8">>
    @@ <<"o", "m", "e", "g", "a">> :> <<"U+03C9">>
    @@ <<"G", "a", "m", "m", "a">> :> <<"U+0393">>
    @@ <<"D", "e", "l", "t", "a">> :> <<"U+0394">>
    @@ <<"T", "h", "e", "t", "a">> :> <<"U+0398">>
    @@ <<"L", "a", "m", "b", "d", "a">> :> <<"U+039B">>
    @@ <<"X", "i">> :> <<"U+039E">>
    @@ <<"P", "i">> :> <<"U+03A0">>
    @@ <<"S", "i", "g", "m", "a">> :> <<"U+03A3">>
    @@ <<"U", "p", "s", "i", "l", "o", "n">> :> <<"U+03A5">>
    @@ <<"P", "h", "i">> :> <<"U+03A6">>
    @@ <<"P", "s", "i">> :> <<"U+03A8">>
    @@ <<"O", "m", "e", "g", "a">> :> <<"U+03A9">>
    @@ <<"a", "p", "p", "r", "o", "x">> :> <<"U+2248">>
    @@ <<"b", "i", "g", "c", "a", "p">> :> <<"U+2229">>
    @@ <<"b", "i", "g", "c", "u", "p">> :> <<"U+222A">>
    @@ <<"c", "a", "p">> :> <<"U+2229">>
    @@ <<"c", "u", "p">> :> <<"U+222A">>
    @@ <<"e", "q", "u", "i", "v">> :> <<"U+2261">>
    @@ <<"e", "x", "i", "s", "t", "s">> :> <<"U+2203">>
    @@ <<"f", "o", "r", "a", "l", "l">> :> <<"U+2200">>
    @@ <<"i", "n", "t">> :> <<"U+222B">>
    @@ <<"s", "u", "m">> :> <<"U+03A3">>
    @@ <<"v", "e", "e">> :> <<"U+2228">>
    @@ <<"w", "e", "d", "g", "e">> :> <<"U+2227">>
    @@ <<"l", "e", "f", "t", "a", "r", "r", "o", "w">> :> <<"U+2190">>
    @@ <<"g", "e", "t", "s">> :> <<"U+2190">>
    @@ <<"L", "e", "f", "t", "a", "r", "r", "o", "w">> :> <<"U+21D0">>
    @@ <<"r", "i", "g", "h", "t", "a", "r", "r", "o", "w">> :> <<"U+2192">>
    @@ <<"t", "o">> :> <<"U+2192">>
    @@ <<"R", "i", "g", "h", "t", "a", "r", "r", "o", "w">> :> <<"U+21D2">>
    @@ <<"l", "e", "f", "t", "r", "i", "g", "h", "t", "a", "r", "r", "o", "w">> :> <<"U+2194">>
    @@ <<"L", "e", "f", "t", "r", "i", "g", "h", "t", "a", "r", "r", "o", "w">> :> <<"U+21D4">>
    @@ <<"m", "a", "p", "s", "t", "o">> :> <<"U+21A6">>
    @@ <<"h", "o", "o", "k", "l", "e", "f", "t", "a", "r", "r", "o", "w">> :> <<"U+21A9">>
    @@ <<"h", "o", "o", "k", "r", "i", "g", "h", "t", "a", "r", "r", "o", "w">> :> <<"U+21AA">>
    @@ <<"l", "e", "f", "t", "h", "a", "r", "p", "o", "o", "n", "u", "p">> :> <<"U+21BC">>
    @@ <<"l", "e", "f", "t", "h", "a", "r", "p", "o", "o", "n", "d", "o", "w", "n">> :> <<"U+21BD">>
    @@ <<"r", "i", "g", "h", "t", "h", "a", "r", "p", "o", "o", "n", "u", "p">> :> <<"U+21C0">>
    @@ <<"r", "i", "g", "h", "t", "h", "a", "r", "p", "o", "o", "n", "d", "o", "w", "n">> :> <<"U+21C1">>
    @@ <<"r", "i", "g", "h", "t", "l", "e", "f", "t", "h", "a", "r", "p", "o", "o", "n", "s">> :> <<"U+21CC">>
    @@ <<"u", "p", "a", "r", "r", "o", "w">> :> <<"U+2191">>
    @@ <<"U", "p", "a", "r", "r", "o", "w">> :> <<"U+21D1">>
    @@ <<"d", "o", "w", "n", "a", "r", "r", "o", "w">> :> <<"U+2193">>
    @@ <<"D", "o", "w", "n", "a", "r", "r", "o", "w">> :> <<"U+21D3">>
    @@ <<"u", "p", "d", "o", "w", "n", "a", "r", "r", "o", "w">> :> <<"U+2195">>
    @@ <<"U", "p", "d", "o", "w", "n", "a", "r", "r", "o", "w">> :> <<"U+21D5">>
    @@ <<" ">> :> <<" ">>
    @@ <<"q", "u", "a", "d">> :> <<" ">>
    @@ <<";">> :> <<" ">>
    @@ <<":">> :> <<" ">>
    @@ <<",">> :> <<" ">>
    @@ <<"!">> :> <<>>
    @@ <<"$">> :> <<"$">>
    @@ <<"&">> :> <<"&">>
    @@ <<"{">> :> <<"{">>
    @@ <<"}">> :> <<"}">>
    @@ <<"\\">> :> <<NL>>

\* the entries of funcMap that return their first argument (s || '')
FuncIdent == {<<>>, <<"m", "a", "t", "h", "b", "f">>, <<"r", "m">>, <<"s", "c", "r", "i", "p", "t", "s", "t", "y", "l", "e">>, <<"t", "e", "x", "t">>}
SqrtName == <<"s", "q", "r", "t">>
UndefinedText == <<"u", "n", "d", "e", "f", "i", "n", "e", "d">>
HasOwnProperty ==
    <<"h", "a", "s", "O", "w", "n", "P", "r", "o", "p", "e", "r", "t", "y">>

\* funcMap.hasOwnProperty(fname)
InFuncMap(fname) ==
    fname \in DOMAIN FuncConst \/ fname \in FuncIdent \/ fname = SqrtName

\* funcMap[fname].apply(null, args); a missing argument is undefined
FuncApply(fname, args) ==
    IF fname \in FuncIdent
    THEN IF args = <<>> THEN <<>> ELSE args[1]
    ELSE IF fname = SqrtName
    THEN <<"U+221A", "(">> \o (IF args = <<>> THEN UndefinedText ELSE args[1])
            \o <<")">>
    ELSE FuncConst[fname]

\* the length of the longest prefix of s made of characters of class
RECURSIVE RunLen(_, _)
RunLen(s, class) ==
    IF s # <<>> /\ Head(s) \in class THEN 1 + RunLen(Tail(s), class) ELSE 0

Drop(s, n) == SubSeq(s, n + 1, Len(s))
Take(s, n) == SubSeq(s, 1, n)

\* the character classes of subsupre: the keys of the tables without "-"
SubClass == (DOMAIN submap) \ {"-"}
SupClass == (DOMAIN supmap) \ {"-"}

MapChars(s, map) == [i \in 1..Len(s) |-> map[s[i]]]

\* subsup(s): every match of subsupre replaced, left to right
RECURSIVE subsup(_)
subsup(s) ==
    IF s = <<>> THEN <<>>
    ELSE LET nsub == IF Head(s) = "_" THEN RunLen(Tail(s), SubClass) ELSE 0
             nsup == IF Head(s) = "^" THEN RunLen(Tail(s), SupClass) ELSE 0
         IN  IF nsub > 0
             THEN MapChars(Take(Tail(s), nsub), submap)
                    \o subsup(Drop(Tail(s), nsub))
             ELSE IF nsup > 0
             THEN MapChars(Take(Tail(s), nsup), supmap)
                    \o subsup(Drop(Tail(s), nsup))
             ELSE <<Head(s)>> \o subsup(Tail(s))

\* the 0-based index of the first character of s in class, -1 if none
Search(s, class) ==
    LET hits == {i \in 1..Len(s) : s[i] \in class}
    IN  IF hits = {} THEN -1
        ELSE (CHOOSE i \in hits : \A j \in hits : i <= j) - 1

\* /\\((?:[A-Za-z]+)|.|)(?:(\{|\[)|\s+)?/.exec(math): the match starts at the
\* first backslash; index is 0-based, -1 for no match; len is m[0].length
MacroMatch(math) ==
    LET p == Search(math, {"\\"})
        rest == Drop(math, p + 1)
        nname == IF rest # <<>> /\ Head(rest) \in Letters
                 THEN RunLen(rest, Letters)
                 ELSE IF rest # <<>> /\ Head(rest) \notin LineTerminators
                 THEN 1 ELSE 0
        after == Drop(rest, nname)
        delim == after # <<>> /\ Head(after) \in Openers
        ntail == IF delim THEN 1 ELSE RunLen(after, WS)
    IN  IF p < 0 THEN [index |-> -1, len |-> 0, fname |-> <<>>, delim |-> FALSE]
        ELSE [index |-> p, len |-> 1 + nname + ntail,
              fname |-> Take(rest, nname), delim |-> delim]

\* /^\s*[{\[]/.exec(math): the length of the match, 0 for no match
NextArgMatch(math) ==
    LET nws == RunLen(math, WS)
    IN  IF Len(math) > nws /\ math[nws + 1] \in Openers THEN nws + 1 ELSE 0

\* the activation record of a call cleanMath(math); raw keeps the arguments
\* as they were extracted, args is what args.map(cleanMath) has made of them,
\* before is math as it was when the argument loop was entered
Frame(math) ==
    [math |-> math, result |-> <<>>, fname |-> <<>>, args |-> <<>>,
     raw |-> <<>>, before |-> <<>>, open |-> 0, last |-> 0, argi |-> 0,
     pc |-> "scan", unterminated |-> FALSE]

Top == mstack[Len(mstack)]
SetTop(f) == [mstack EXCEPT ![Len(mstack)] = f]
Running == mstatus = "run" /\ mstack # <<>>


\* lines 718-725: the next macro; the literal text before it goes to result
ScanStep(f) ==
    LET m == MacroMatch(f.math)
    IN  [f EXCEPT !.fname = m.fname, !.args = <<>>, !.raw = <<>>,
                  !.result = @ \o Take(f.math, m.index),
                  !.math = Drop(f.math, m.index + m.len),
                  !.before = Drop(f.math, m.index + m.len),
                  !.open = 1, !.last = 0, !.argi = 0,
                  !.unterminated = FALSE,
                  !.pc = IF m.delim THEN "arg" ELSE "lookup"]

\* an argument loop that does not move past a nested open delimiter
ArgStepStuck(f) ==
    LET next == Search(Drop(f.math, f.last), Delimiters)
        at == f.last + next
    IN  IF next >= 0 /\ f.math[at + 1] \in Openers
        THEN [f EXCEPT !.open = @ + 1]
        ELSE [f EXCEPT !.args = Append(@, f.math), !.raw = Append(@, f.math),
                       !.math = <<>>, !.unterminated = TRUE,
                       !.argi = 1, !.pc = "map"]

\* an argument loop that stops after the first argument
ArgStepNoChain(f) ==
    LET next == Search(Drop(f.math, f.last), Delimiters)
        at == f.last + next
    IN  IF next < 0
        THEN [f EXCEPT !.args = Append(@, f.math), !.raw = Append(@, f.math),
                       !.math = <<>>, !.unterminated = TRUE,
                       !.argi = 1, !.pc = "map"]
        ELSE IF f.math[at + 1] \in Openers
        THEN [f EXCEPT !.open = @ + 1, !.last = at + 1]
        ELSE IF f.open - 1 = 0
        THEN [f EXCEPT !.args = Append(@, Take(f.math, at)),
                       !.raw = Append(@, Take(f.math, at)),
                       !.math = Drop(f.math, at + 1), !.open = 0, !.last = 0,
                       !.argi = 1, !.pc = "map"]
        ELSE [f EXCEPT !.open = @ - 1, !.last = at + 1]

\* lines 729-755: one turn of the loop that finds the full argument
ArgStep(f) ==
    LET next == Search(Drop(f.math, f.last), Delimiters)
        at == f.last + next
    IN  IF next < 0
        THEN [f EXCEPT !.args = Append(@, f.math), !.raw = Append(@, f.math),
                       !.math = <<>>, !.unterminated = TRUE,
                       !.argi = 1, !.pc = "map"]
        ELSE IF f.math[at + 1] \in Openers
        THEN [f EXCEPT !.open = @ + 1, !.last = at + 1]
        ELSE IF f.open - 1 = 0
        THEN LET arg == Take(f.math, at)
                 rest == Drop(f.math, at + 1)
                 n == NextArgMatch(rest)
             IN  IF n = 0
                 THEN [f EXCEPT !.args = Append(@, arg), !.raw = Append(@, arg),
                                !.math = rest, !.open = 0, !.last = 0,
                                !.argi = 1, !.pc = "map"]
                 ELSE [f EXCEPT !.args = Append(@, arg), !.raw = Append(@, arg),
                                !.math = Drop(rest, n), !.open = 1, !.last = 0]
        ELSE [f EXCEPT !.open = @ - 1, !.last = at + 1]

\* lines 765-767: the text an unknown macro is passed through as
RECURSIVE Braced(_)
Braced(args) ==
    IF args = <<>> THEN <<>>
    ELSE <<"{">> \o Head(args) \o <<"}">> \o Braced(Tail(args))
PassThrough(fname, args) == <<"\\">> \o fname \o Braced(args) \o <<" ">>

\* return result + subsup(math)
ReturnValue(f) == f.result \o subsup(f.math)

MScan ==
    /\ Running
    /\ Top.pc = "scan"
    /\ MacroMatch(Top.math).index >= 0
    /\ mstack' = SetTop(ScanStep(Top))
    /\ UNCHANGED <<fvars, vvars, gvars, minput, mstatus, mret, warned, warnLog, ncalls>>

MArg ==
    /\ Running
    /\ Top.pc = "arg"
    /\ LET f == ArgStep(Top)
       IN  /\ mstack' = SetTop(f)
           /\ warnLog' = IF f.unterminated
                         THEN Append(warnLog, [kind |-> "unterminated",
                                               name |-> f.fname])
                         ELSE warnLog
    /\ UNCHANGED <<fvars, vvars, gvars, minput, mstatus, mret, warned, ncalls>>

\* args.map(cleanMath): the call for the next argument
MCallArg ==
    /\ Running
    /\ Top.pc = "map"
    /\ mstack' = Append(mstack, Frame(Top.args[Top.argi]))
    /\ UNCHANGED <<fvars, vvars, gvars, minput, mstatus, mret, warned, warnLog, ncalls>>

\* line 772: the loop is left when no macro remains; the value goes to the
\* caller, which is args.map of the enclosing call or the top-level caller
MReturn ==
    /\ Running
    /\ Top.pc = "scan"
    /\ MacroMatch(Top.math).index < 0
    /\ LET v == ReturnValue(Top)
           below == Take(mstack, Len(mstack) - 1)
       IN  IF below = <<>>
           THEN /\ mstack' = <<>>
                /\ mstatus' = "done"
                /\ mret' = v
           ELSE LET c == below[Len(below)]
                IN  /\ mstack' = [below EXCEPT ![Len(below)] =
                          [c EXCEPT !.args[c.argi] = v,
                                    !.argi = @ + 1,
                                    !.pc = IF c.argi + 1 > Len(c.args)
                                           THEN "lookup" ELSE "map"]]
                    /\ UNCHANGED <<mstatus, mret>>
    /\ UNCHANGED <<fvars, vvars, gvars, minput, warned, warnLog, ncalls>>

\* lines 760-770.  warned.hasOwnProperty is the inherited method until the
\* key "hasOwnProperty" itself has been set on warned (to true); calling it
\* from then on throws a TypeError, which nothing in cleanMath catches.
MLookup ==
    /\ Running
    /\ Top.pc = "lookup"
    /\ LET f == Top
       IN  IF InFuncMap(f.fname)
           THEN /\ mstack' = SetTop([f EXCEPT
                        !.result = @ \o FuncApply(f.fname, f.args),
                        !.pc = "scan"])
                /\ UNCHANGED <<mstatus, warned, warnLog>>
           ELSE IF HasOwnProperty \in warned
           THEN /\ mstack' = <<>>
                /\ mstatus' = "threw"
                /\ UNCHANGED <<warned, warnLog>>
           ELSE /\ mstack' = SetTop([f EXCEPT
                        !.result = @ \o PassThrough(f.fname, f.args),
                        !.pc = "scan"])
                /\ warned' = warned \cup {f.fname}
                /\ warnLog' = IF f.fname \in warned THEN warnLog
                              ELSE Append(warnLog, [kind |-> "unknown",
                                                    name |-> f.fname])
                /\ UNCHANGED mstatus
    /\ UNCHANGED <<fvars, vvars, gvars, minput, mret, ncalls>>

\* the entry of a call cleanMath(math)
StartMath(math) ==
    /\ minput' = math
    /\ mstack' = <<Frame(math)>>
    /\ mstatus' = "run"
    /\ mret' = <<>>
    /\ ncalls' = ncalls + 1

FormatterIdle ==
    /\ options = DefaultOptions
    /\ fmt = Formatter
    /\ hist = [op |-> "new", arg |-> <<>>, outLen |-> 0, newPara |-> TRUE,
               newLine |-> TRUE,
               exc |-> FALSE]
    /\ nops = 0

----------------------------------------------------------------------------
(* SpecMath: one call of cleanMath on any input of the bounded set         *)

MaxUnits == 5

\* the pieces the inputs are put together from: an unknown macro name, the
\* delimiters, an eligible subscript run, a blank, a lone backslash
Units ==
    {<<"\\", "a">>, <<"{">>, <<"}">>, <<"]">>, <<"_", "2">>, <<" ">>,
     <<"\\">>}

RECURSIVE UnitStrings(_)
UnitStrings(n) ==
    IF n = 0 THEN {<<>>}
    ELSE LET shorter == UnitStrings(n - 1)
         IN  shorter \cup {u \o s : u \in Units, s \in shorter}

\* the inputs the specification names
SqrtIndexed ==
    <<"\\", "s", "q", "r", "t", "[", "3", "]", "{", "x", "}">>
SqrtFour == <<"\\", "s", "q", "r", "t", "{", "4", "}">>
SqrtOpen == <<"\\", "s", "q", "r", "t", "{", "x">>
AlphaPlusBeta ==
    <<"\\", "a", "l", "p", "h", "a", "+", "\\", "b", "e", "t", "a">>
FooBar == <<"\\", "f", "o", "o", "{", "b", "a", "r", "}">>
SubBeforeMacro == <<"x", "_", "2", "\\", "a", "l", "p", "h", "a">>
SubAfterMacro == <<"\\", "a", "l", "p", "h", "a", " ", "x", "_", "2">>
SupIneligible == <<"x", "^", "a", "^", "2">>
Nested ==
    <<"\\", "f", "o", "o", "{", "[", "x", "]", "}", " ", "[", "\\", "f",
      "o", "o", "]", "y">>
Poison == <<"\\">> \o HasOwnProperty \o <<"\\", "f", "o", "o">>

Examples ==
    {SqrtIndexed, SqrtFour, SqrtOpen, AlphaPlusBeta, FooBar, SubBeforeMacro,
     SubAfterMacro, SupIneligible, Nested, Poison}

MathInputs == UnitStrings(MaxUnits) \cup Examples

InitMath == FormatterIdle /\ MathIdle /\ VisitorIdle /\ DriverIdle

\* the call cleanMath(math) of visitTYPEOF=mw:Extension/math
MCall ==
    /\ mstatus = "idle"
    /\ \E math \in MathInputs : StartMath(math)
    /\ UNCHANGED <<fvars, vvars, gvars, warned, warnLog>>

NextMath ==
    \/ MCall
    \/ MScan
    \/ MArg
    \/ MCallArg
    \/ MReturn
    \/ MLookup

SpecMath == InitMath /\ [][NextMath]_vars


----------------------------------------------------------------------------
(* Claims about cleanMath                                                  *)

Finished == mstatus \in {"done", "threw"}

\* a step of the innermost call that stays within it
SameCall == Running /\ mstack' # <<>> /\ Len(mstack') = Len(mstack)

\* A bound on the steps a call on a text of length n can take, and with it
\* a bound on the steps the calls in progress have left: every step of
\* cleanMath lowers Rank, so no call runs forever.
StepBound(n) == n * n + n + 1

RECURSIVE ArgCost(_, _)
ArgCost(args, from) ==
    IF from > Len(args) THEN 0
    ELSE 1 + StepBound(Len(args[from])) + ArgCost(args, from + 1)

FrameRank(f, innermost) ==
    CASE f.pc = "scan" -> StepBound(Len(f.math))
      [] f.pc = "lookup" -> 1 + StepBound(Len(f.math))
      [] f.pc = "map" ->
            ArgCost(f.args, IF innermost THEN f.argi ELSE f.argi + 1)
                + 1 + StepBound(Len(f.math))
      [] f.pc = "arg" ->
            ArgCost(f.args, 1) + StepBound(Len(f.math))
                + (Len(f.math) - f.last) + 4

RECURSIVE RankFrom(_)
RankFrom(i) ==
    IF i > Len(mstack) THEN 0
    ELSE FrameRank(mstack[i], i = Len(mstack)) + RankFrom(i + 1)
Rank == RankFrom(1)

\* the innermost call is at a statement it can execute: the conjunction of
\* the guards of MScan/MReturn, MArg, MCallArg and MLookup
CanStep ==
    \/ Top.pc \in {"scan", "lookup"}
    \/ Top.pc = "arg" /\ Top.last <= Len(Top.math)
    \/ Top.pc = "map" /\ Top.argi \in 1..Len(Top.args)

\* C7: cleanMath terminates on every input: a call in progress can always
\* take a step and every step lowers the natural number Rank; a turn of the
\* outer loop strictly shortens the remaining input; a turn of the argument
\* loop that stays in the loop strictly advances the scan position or
\* shortens the input; and when no close delimiter is left the whole
\* remainder becomes the argument and nothing remains to scan.
C7_Terminates ==
    /\ [](Running => CanStep)
    /\ [][Running => (Rank' < Rank /\ Rank' >= 0)]_vars
    /\ [][(SameCall /\ Top.pc = "scan")
            => Len(Top'.math) < Len(Top.math)]_vars
    /\ [][(SameCall /\ Top.pc = "arg" /\ Top'.pc = "arg")
            => \/ Len(Top'.math) < Len(Top.math)
               \/ (Top'.math = Top.math /\ Top'.last > Top.last)]_vars
    /\ [][(SameCall /\ Top.pc = "arg"
              /\ Search(Drop(Top.math, Top.last), Delimiters) < 0)
            => /\ Top'.raw = Append(Top.raw, Top.math)
               /\ Top'.math = <<>>
               /\ Top'.pc = "map"]_vars

\* the call on the unterminated \sqrt{x has returned
C7_Witness ==
    /\ minput = SqrtOpen
    /\ mstatus = "done"
    /\ \E i \in 1..Len(warnLog) : warnLog[i].kind = "unterminated"


\* the nesting depth of s over {}[]: open delimiters less close delimiters
RECURSIVE Depth(_)
Depth(s) ==
    IF s = <<>> THEN 0
    ELSE Depth(Take(s, Len(s) - 1))
            + (IF s[Len(s)] \in Openers THEN 1
               ELSE IF s[Len(s)] \in Delimiters THEN -1 ELSE 0)

\* no close delimiter inside s brings the depth below that of its start
NeverCloses(s) == \A i \in 1..Len(s) : Depth(Take(s, i)) >= 0

IsPrefix(a, b) == Len(a) <= Len(b) /\ Take(b, Len(a)) = a

\* text b, scanned after an open delimiter, is exactly the arguments raw,
\* each ended by the close delimiter that brings the depth back to zero and
\* each further one opened by the group that directly follows, and then
\* rest, which does not start with another group; or the last argument has
\* no such close delimiter and is all that is left
RECURSIVE Chained(_, _, _)
Chained(b, raw, rest) ==
    /\ raw # <<>>
    /\ IsPrefix(raw[1], b)
    /\ NeverCloses(raw[1])
    /\ LET r == Drop(b, Len(raw[1]))
       IN  IF r = <<>> THEN Len(raw) = 1 /\ rest = <<>>
           ELSE /\ Depth(raw[1]) = 0
                /\ r[1] \in Delimiters \ Openers
                /\ IF Len(raw) = 1
                   THEN Drop(r, 1) = rest /\ NextArgMatch(rest) = 0
                   ELSE /\ NextArgMatch(Drop(r, 1)) > 0
                        /\ Chained(Drop(r, 1 + NextArgMatch(Drop(r, 1))),
                                   Tail(raw), rest)

HasMacro(s) == \E i \in 1..Len(s) : s[i] = "\\"

\* C8: when a macro name is directly followed by an open brace or bracket,
\* once the arguments are extracted the scanned text is exactly the chain of
\* groups, each argument ending at the close delimiter that brings the depth
\* back to zero, no group of the chain is left in the remaining input, and
\* when the handler is looked up every argument has been interpreted by a
\* call of cleanMath; \sqrt[3]{x} gets the arguments 3 and x and leaves
\* nothing.
C8_ChainedArguments ==
    \A i \in 1..Len(mstack) :
        LET f == mstack[i]
        IN  /\ (f.pc \in {"map", "lookup"} /\ f.raw # <<>>)
                  => /\ Chained(f.before, f.raw, f.math)
                     /\ Len(f.args) = Len(f.raw)
            /\ (f.pc = "lookup" /\ f.raw # <<>>)
                  => /\ f.argi = Len(f.raw) + 1
                     /\ \A k \in 1..Len(f.raw) :
                          ~HasMacro(f.raw[k]) => f.args[k] = subsup(f.raw[k])
            /\ (f.pc = "lookup" /\ minput = SqrtIndexed)
                  => /\ f.raw = <<(<<"3">>), (<<"x">>)>>
                     /\ f.math = <<>>

\* the handler of \sqrt[3]{x} is about to be applied to both arguments
C8_Witness ==
    /\ minput = SqrtIndexed
    /\ Running
    /\ Top.pc = "lookup"
    /\ Top.args = <<(<<"3">>), (<<"x">>)>>


----------------------------------------------------------------------------
(* SpecWarn: several calls of cleanMath in one process; the object warned  *)
(* lives as long as the module                                             *)

MaxCalls == 2

FooAlone == <<"\\", "f", "o", "o">>
FooTwice == FooBar \o FooAlone
PoisonAlone == <<"\\">> \o HasOwnProperty

WarnInputs == {FooBar, FooAlone, FooTwice, Nested, AlphaPlusBeta, PoisonAlone}

MCallNext ==
    /\ mstatus \in {"idle", "done"}
    /\ ncalls < MaxCalls
    /\ \E math \in WarnInputs : StartMath(math)
    /\ UNCHANGED <<fvars, vvars, gvars, warned, warnLog>>

NextWarn ==
    \/ MCallNext
    \/ MScan
    \/ MArg
    \/ MCallArg
    \/ MReturn
    \/ MLookup

SpecWarn == InitMath /\ [][NextWarn]_vars

\* the number of "Unknown math function" diagnostics emitted for name
RECURSIVE UnknownCount(_, _)
UnknownCount(log, name) ==
    IF log = <<>> THEN 0
    ELSE (IF Head(log) = [kind |-> "unknown", name |-> name] THEN 1 ELSE 0)
            + UnknownCount(Tail(log), name)

FooBarOut == <<"\\", "f", "o", "o", "{", "b", "a", "r", "}", " ">>

\* C9: a macro name without an entry in funcMap is passed through as \name,
\* its interpreted arguments in braces and one blank (\foo{bar} gives
\* "\foo{bar} "), and after it has been looked up its diagnostic has been
\* emitted exactly once, however often it occurs and over all the calls.
C9_UnknownOnce ==
    /\ [](mstatus # "threw")
    /\ []((mstatus = "done" /\ minput = FooBar) => mret = FooBarOut)
    /\ [][(Running /\ Top.pc = "lookup" /\ ~InFuncMap(Top.fname))
            => /\ mstack' # <<>>
               /\ Top'.result
                    = Top.result \o PassThrough(Top.fname, Top.args)
               /\ UnknownCount(warnLog', Top.fname) = 1]_vars

\* the input of C10's statement holds no macro arguments
NoGroups(s) == \A i \in 1..Len(s) : s[i] \notin Delimiters

\* the result the claim describes: the macros replaced, and every literal
\* stretch between them put through subsup
RECURSIVE Transliterated(_)
Transliterated(s) ==
    LET m == MacroMatch(s)
    IN  IF m.index < 0 THEN subsup(s)
        ELSE subsup(Take(s, m.index))
                \o (IF InFuncMap(m.fname) THEN FuncApply(m.fname, <<>>)
                    ELSE PassThrough(m.fname, <<>>))
                \o Transliterated(Drop(s, m.index + m.len))

\* C10: in the result every literal run _<run> or ^<run> of eligible
\* characters outside macro arguments is transliterated, whether it stands
\* before or after the macro calls.
C10_RunsTransliterated ==
    (mstatus = "done" /\ NoGroups(minput)) => mret = Transliterated(minput)

----------------------------------------------------------------------------
(* Reading the document                                                    *)

IsElement(n) == n.nodeType = "element"
ElementChildren(n) == SelectSeq(n.kids, IsElement)

\* DomUtil.first_child: the first child that is not white space
IsBlank(n) == n.nodeType = "text" /\ \A i \in 1..Len(n.data) : n.data[i] \in WS
NotBlank(n) == ~IsBlank(n)
HasFirstChild(n) == SelectSeq(n.kids, NotBlank) # <<>>

\* Polyglossia.lookup(lang).dir
RTLLanguages == {"ar", "fa", "he", "ur"}
PolyglossiaDir(lang) == IF lang \in RTLLanguages THEN "rtl" ELSE "ltr"

----------------------------------------------------------------------------
(* Text of the document                                                    *)

LDQUO == "U+201C"
RDQUO == "U+201D"
LSQUO == "U+2018"
RSQUO == "U+2019"

\* str.replace(/\r\n?/g, '\n')
RECURSIVE UnixNewlines(_)
UnixNewlines(s) ==
    IF s = <<>> THEN <<>>
    ELSE IF Head(s) = "\r"
         THEN <<NL>> \o UnixNewlines(IF Len(s) > 1 /\ s[2] = NL
                                      THEN Tail(Tail(s)) ELSE Tail(s))
         ELSE <<Head(s)>> \o UnixNewlines(Tail(s))

\* str.replace(/\n\n+/g, '\n')
RECURSIVE SingleNewlines(_)
SingleNewlines(s) ==
    IF s = <<>> THEN <<>>
    ELSE IF Head(s) = NL /\ Len(s) > 1 /\ s[2] = NL THEN SingleNewlines(Tail(s))
    ELSE <<Head(s)>> \o SingleNewlines(Tail(s))

\* str.replace(/^\n+/, '')
RECURSIVE StripLeadingNewlines(_)
StripLeadingNewlines(s) ==
    IF s # <<>> /\ Head(s) = NL THEN StripLeadingNewlines(Tail(s)) ELSE s

\* str.replace(/\n$/, '')
StripFinalNewline(s) ==
    IF s # <<>> /\ s[Len(s)] = NL THEN SubSeq(s, 1, Len(s) - 1) ELSE s

PlainQuote(c) ==
    IF c \in {LDQUO, RDQUO} THEN "\""
    ELSE IF c \in {LSQUO, RSQUO} THEN "'" ELSE c

\* a textEscape without the replacement of /\n\n+/g
textEscapeNoCompress(str) ==
    LET s == StripFinalNewline(StripLeadingNewlines(UnixNewlines(str)))
    IN  [i \in 1..Len(s) |-> PlainQuote(s[i])]

textEscape(str) ==
    LET s == StripFinalNewline(StripLeadingNewlines(
                SingleNewlines(UnixNewlines(str))))
    IN  [i \in 1..Len(s) |-> PlainQuote(s[i])]

\* the decimal digits of a positive number, (i+1) + ''
DigitChars == <<"0", "1", "2", "3", "4", "5", "6", "7", "8", "9">>
RECURSIVE Decimal(_)
Decimal(n) ==
    IF n < 10 THEN <<DigitChars[n + 1]>>
    ELSE Decimal(n \div 10) \o <<DigitChars[(n % 10) + 1]>>

\* subre.test(s), supre.test(s): one or more characters, all keys of the map
AllIn(s, map) == s # <<>> /\ \A i \in 1..Len(s) : s[i] \in DOMAIN map

----------------------------------------------------------------------------
(* Predicates of the dispatcher                                            *)

MultipleImageTargets == {"./Template:Triple_image", "./Template:Double_image"}

\* JSON.parse and the property reads sit in a try block: anything but a
\* transclusion whose first part targets one of the two templates is false
isMultipleImageTemplate(node) ==
    /\ node.typeof = "mw:Transclusion"
    /\ node.dataMw.kind = "template"
    /\ node.dataMw.href \in MultipleImageTargets

\* the values of the style attribute in the model that the test
\* /(^|;)\s*display\s*:\s*none\s*(;|$)/i accepts
HidingStyles == {"display:none", "color:red; DISPLAY : none ;"}

HiddenClasses ==
    {"infobox", "navbox", "rellink", "dablink", "toplink", "metadata"}

\* an isHidden without the test of the style attribute
isHiddenNoStyle(node) ==
    IF isMultipleImageTemplate(node) THEN FALSE
    ELSE IF "noprint" \in node.class THEN TRUE
    ELSE IF node.class \cap HiddenClasses # {} THEN TRUE
    ELSE FALSE

isHidden(node) ==
    IF isMultipleImageTemplate(node) THEN FALSE
    ELSE IF "noprint" \in node.class THEN TRUE
    ELSE IF node.style \in HidingStyles THEN TRUE
    ELSE IF node.class \cap HiddenClasses # {} THEN TRUE
    ELSE FALSE

\* the properties visitTYPEOF=..., visitREL=... and visit<TAG> of a Visitor
TypeofHandlers ==
    {"mw:Extension/math", "mw:Extension/references", "mw:Image",
     "mw:Image/Thumb"}
RelHandlers == {"dc:references", "mw:referencedBy"}
TagHandlers ==
    {"BODY", "A", "P", "SUB", "SUP", "CENTER", "BR", "H1", "H2", "H3", "H4",
     "H5", "H6", "UL", "OL", "LI", "DL", "DT", "DD", "BLOCKQUOTE", "TABLE",
     "FIGURE", "DIV"}

----------------------------------------------------------------------------
(* The sinks: the Formatter and the collector objects of collect           *)

\* Formatter.prototype.writeHeading(level, heading)
FWriteHeading(F, heading) ==
    LET F1 == FParagraphBreak(F)
    IN  IF F1.exc THEN F1 ELSE FParagraphBreak(FText(F1, Trim(heading)))

\* the object collect installs as this.format; b is its array of strings
Collector == [newLine |-> TRUE, newPara |-> TRUE, b |-> <<>>]

CWrite(c, text) ==
    [c EXCEPT !.newLine = FALSE, !.newPara = FALSE, !.b = Append(@, text)]
CLineBreak(c) ==
    IF c.newLine THEN c
    ELSE [c EXCEPT !.b = Append(@, <<" ">>), !.newLine = TRUE]
CParagraphBreak(c) ==
    IF c.newPara THEN c ELSE [CLineBreak(c) EXCEPT !.newPara = TRUE]
CIndent(c, tag) ==
    LET c1 == CLineBreak(c)
    IN  IF tag # <<>> THEN [c1 EXCEPT !.b = @ \o <<tag, <<" ">> >>] ELSE c1
CDedent(c) == CLineBreak(c)

\* the text of a collector joined but not compressed
CollectedTextJoined(c) == Concat(c.b)

\* b.join('').replace(/\s+/g, ' ')
CollectedText(c) == CollapseWS(Concat(c.b))

Op(op, arg) == [op |-> op, arg |-> arg]

FormatterOp(F, o) ==
    CASE o.op = "write" -> FText(F, o.arg)
      [] o.op = "lineBreak" -> FLineBreak(F)
      [] o.op = "paragraphBreak" -> FParagraphBreak(F)
      [] o.op = "indent" -> FIndent(F, o.arg)
      [] o.op = "dedent" -> FDedent(F)
      [] o.op = "writeHeading" -> FWriteHeading(F, o.arg)

CollectorOp(c, o) ==
    CASE o.op = "write" -> CWrite(c, o.arg)
      [] o.op = "lineBreak" -> CLineBreak(c)
      [] o.op = "paragraphBreak" -> CParagraphBreak(c)
      [] o.op = "indent" -> CIndent(c, o.arg)
      [] o.op = "dedent" -> CDedent(c)

\* One call this.format.<op>(arg) in Visitor state V.  this.format is the
\* innermost collector, or the Formatter when no collect is running.  A
\* collector has no method writeHeading: calling it is a TypeError.  The
\* trace keeps the calls made, with the nesting depth of the sink called.
Send(V, o) ==
    IF V.exc THEN V
    ELSE LET n == Len(V.sinks)
             V1 == [V EXCEPT !.trace =
                        Append(@, [sink |-> n, op |-> o.op, arg |-> o.arg])]
         IN  IF n = 0
             THEN LET F == FormatterOp(V.fmt, o)
                  IN  [V1 EXCEPT !.fmt = [F EXCEPT !.exc = FALSE],
                                 !.exc = F.exc]
             ELSE IF o.op = "writeHeading" THEN [V EXCEPT !.exc = TRUE]
             ELSE [V1 EXCEPT !.sinks[n] = CollectorOp(@, o)]

RECURSIVE Emit(_, _)
Emit(V, ops) ==
    IF ops = <<>> THEN V ELSE Emit(Send(V, Head(ops)), Tail(ops))

----------------------------------------------------------------------------
(* The math extension's source                                             *)

BeginWord == <<"\\", "b", "e", "g", "i", "n">>
EndWord == <<"\\", "e", "n", "d">>
EnvNames ==
    {<<"e", "q", "n", "a", "r", "r", "a", "y">>,
     <<"e", "q", "u", "a", "t", "i", "o", "n">>,
     <<"a", "l", "i", "g", "n">>,
     <<"g", "a", "t", "h", "e", "r">>,
     <<"f", "a", "l", "i", "g", "n">>,
     <<"m", "u", "l", "t", "i", "l", "i", "n", "e">>,
     <<"a", "l", "i", "g", "n", "a", "t">>}
TableEnvNames ==
    {<<"a", "r", "r", "a", "y">>, <<"a", "l", "i", "g", "n">>,
     <<"e", "q", "n", "a", "r", "r", "a", "y">>}

StartsWith(s, p) == Len(p) <= Len(s) /\ SubSeq(s, 1, Len(p)) = p
AllWS(s) == \A i \in 1..Len(s) : s[i] \in WS
\* the index of the first c in s, 0 when there is none
FirstIndex(s, c) ==
    IF \E i \in 1..Len(s) : s[i] = c
    THEN CHOOSE i \in 1..Len(s) : s[i] = c /\ \A j \in 1..(i - 1) : s[j] # c
    ELSE 0

\* [*]?\s*\} at the start of s: what follows the brace, or Undefined
AfterEnvName(s) ==
    LET s1 == StripLeft(IF s # <<>> /\ Head(s) = "*" THEN Tail(s) ELSE s)
    IN  IF s1 # <<>> /\ Head(s1) = "}" THEN Tail(s1) ELSE Undefined

\* \s*\{[^\}*]+[*]?\s*\}\s*$ matches all of s
EndTail(s) ==
    LET s1 == StripLeft(s)
        s2 == Tail(s1)
        p == FirstIndex(s2, "}")
        c == SubSeq(s2, 1, p - 1)
        q == FirstIndex(c, "*")
    IN  /\ s1 # <<>> /\ Head(s1) = "{"
        /\ p > 0
        /\ AllWS(SubSeq(s2, p + 1, Len(s2)))
        /\ IF q = 0 THEN c # <<>>
           ELSE q > 1 /\ AllWS(SubSeq(c, q + 1, Len(c)))

\* /^\s*\\begin\s*\{\s*(eqnarray|...)[*]?\s*\}([\s\S]*)\\end...$/.exec(math):
\* the groups m[1], m[2], or no match
EnvMatch(math) ==
    LET s1 == StripLeft(math)
        s2 == StripLeft(SubSeq(s1, Len(BeginWord) + 1, Len(s1)))
        s3 == StripLeft(Tail(s2))
        names == {n \in EnvNames :
                    /\ StartsWith(s3, n)
                    /\ AfterEnvName(SubSeq(s3, Len(n) + 1, Len(s3)))
                            # Undefined}
        name == CHOOSE n \in names : TRUE
        rest == AfterEnvName(SubSeq(s3, Len(name) + 1, Len(s3)))
        ends == {k \in 0..Len(rest) :
                    /\ StartsWith(SubSeq(rest, k + 1, Len(rest)), EndWord)
                    /\ EndTail(SubSeq(rest, k + Len(EndWord) + 1, Len(rest)))}
        last == CHOOSE k \in ends : \A j \in ends : j <= k
    IN  IF /\ StartsWith(s1, BeginWord)
           /\ s2 # <<>> /\ Head(s2) = "{"
           /\ names # {}
           /\ ends # {}
        THEN [ok |-> TRUE, name |-> name, body |-> SubSeq(rest, 1, last)]
        ELSE [ok |-> FALSE, name |-> <<>>, body |-> <<>>]

\* s.replace(from, to) with a string pattern: the first occurrence only
ReplaceFirst(s, from, to) ==
    LET hits == {k \in 0..Len(s) : StartsWith(SubSeq(s, k + 1, Len(s)), from)}
        k == CHOOSE h \in hits : \A j \in hits : h <= j
    IN  IF hits = {} THEN s
        ELSE SubSeq(s, 1, k) \o to \o SubSeq(s, k + Len(from) + 1, Len(s))

cleanMathTable(math) ==
    ReplaceFirst(ReplaceFirst(math, <<"\\", "\\">>, <<NL>>), <<"&">>, <<" ">>)

----------------------------------------------------------------------------
(* The Visitor                                                             *)

\* visit(node), the element case: rel is looked up before typeof
DispatchRelFirst(node, curLang, curDir) ==
    LET lang == IF node.lang # "" THEN node.lang ELSE curLang
        attr == IF node.dir # "" THEN node.dir ELSE curDir
        dir == IF attr = "auto" THEN curDir ELSE attr
    IN  IF isHidden(node) THEN Handler("hidden", "")
        ELSE IF lang # curLang THEN Handler("lang", lang)
        ELSE IF dir # curDir THEN Handler("dir", dir)
        ELSE IF node.rel \in RelHandlers THEN Handler("rel", node.rel)
        ELSE IF node.typeof \in TypeofHandlers
             THEN Handler("typeof", node.typeof)
        ELSE IF node.nodeName \in TagHandlers
             THEN Handler("tag", node.nodeName)
        ELSE Handler("children", "")

\* visit(node), the element case
Dispatch(node, curLang, curDir) ==
    LET lang == IF node.lang # "" THEN node.lang ELSE curLang
        attr == IF node.dir # "" THEN node.dir ELSE curDir
        dir == IF attr = "auto" THEN curDir ELSE attr
    IN  IF isHidden(node) THEN Handler("hidden", "")
        ELSE IF lang # curLang THEN Handler("lang", lang)
        ELSE IF dir # curDir THEN Handler("dir", dir)
        ELSE IF node.typeof \in TypeofHandlers
             THEN Handler("typeof", node.typeof)
        ELSE IF node.rel \in RelHandlers THEN Handler("rel", node.rel)
        ELSE IF node.nodeName \in TagHandlers
             THEN Handler("tag", node.nodeName)
        ELSE Handler("children", "")

\* What is left to do, innermost last.  k is the kind of step: "visit"
\* (the call visit(node)), "call" (the call of handler h on node),
\* "children" (visitChildren(node) about to visit child i), "op" (a call
\* of this.format that follows a recursion), the tails of the handlers
\* that save and restore, and "return" (visit(node) returns; save is the
\* state at its call).
Task(k, h, node, i, save) ==
    [k |-> k, h |-> h, node |-> node, i |-> i, save |-> save]

VisitTask(node) == Task("visit", NoHandler, node, 0, <<>>)
CallTask(h, node) == Task("call", h, node, 0, <<>>)
ChildrenTask(node) == Task("children", NoHandler, node, 1, <<>>)
OpTask(op) == Task("op", Handler("op", op), Comment, 0, <<>>)
TailTask(k, node, i, save) == Task(k, NoHandler, node, i, save)

RECURSIVE Reverse(_)
Reverse(s) == IF s = <<>> THEN <<>> ELSE Append(Reverse(Tail(s)), Head(s))

NewListInfo(type, was) ==
    [type |-> type, num |-> 0, depth |-> was.depth + 1, sawDT |-> FALSE]

CurrentTask == tasks[Len(tasks)]
At(k) == vstatus = "run" /\ tasks # <<>> /\ CurrentTask.k = k
Calling(by, names) ==
    /\ At("call")
    /\ CurrentTask.h.by = by
    /\ CurrentTask.h.name \in names

\* the Visitor and its Formatter, with the current task taken off
Here ==
    [fmt |-> fmt, sinks |-> sinks, trace |-> trace, exc |-> FALSE,
     tasks |-> SubSeq(tasks, 1, Len(tasks) - 1),
     lang |-> currentLanguage, dir |-> currentDirectionality,
     listInfo |-> listInfo, used |-> usedLanguages,
     templates |-> templates, lastVisit |-> lastVisit,
     lastRet |-> lastRet]

\* the steps ts are to run next, in this order
Then(V, ts) == IF V.exc THEN V ELSE [V EXCEPT !.tasks = @ \o Reverse(ts)]

Snapshot(V) ==
    [lang |-> V.lang, dir |-> V.dir, depth |-> Len(V.fmt.stateStack),
     sinks |-> Len(V.sinks), listInfo |-> V.listInfo, used |-> V.used,
     ntrace |-> Len(V.trace)]

\* An exception leaves visit and its callers (nothing catches it): the
\* objects keep what was done before the throw.
Commit(V) ==
    /\ fmt' = V.fmt
    /\ sinks' = V.sinks
    /\ trace' = V.trace
    /\ currentLanguage' = V.lang
    /\ currentDirectionality' = V.dir
    /\ listInfo' = V.listInfo
    /\ usedLanguages' = V.used
    /\ templates' = V.templates
    /\ lastVisit' = V.lastVisit
    /\ lastRet' = V.lastRet
    /\ tasks' = IF V.exc THEN <<>> ELSE V.tasks
    /\ vstatus' = IF V.exc THEN "threw"
                  ELSE IF V.tasks = <<>> THEN "done" ELSE "run"
    /\ UNCHANGED <<doc, options, hist, nops, gvars>>

----------------------------------------------------------------------------
(* The handlers: each takes the Visitor state at its call and gives the    *)
(* state when it returns or reaches its first recursion                    *)

\* a visitLANG= that saves the directionality after it has set it
visitLANGSavesLate(V, node) ==
    Then([V EXCEPT !.lang = node.lang, !.dir = PolyglossiaDir(node.lang)],
         <<VisitTask(node),
           TailTask("restoreLang", node, 0,
                    <<V.lang, PolyglossiaDir(node.lang)>>)>>)

\* a visitLANG= that calls visit again without setting the language
visitLANGNotSet(V, node) ==
    Then(V, <<VisitTask(node),
              TailTask("restoreLang", node, 0, <<V.lang, V.dir>>)>>)

visitLANG(V, node) ==
    Then([V EXCEPT !.lang = node.lang, !.dir = PolyglossiaDir(node.lang)],
         <<VisitTask(node),
           TailTask("restoreLang", node, 0, <<V.lang, V.dir>>)>>)

visitDIR(V, node) ==
    Then([V EXCEPT !.dir = node.dir],
         <<VisitTask(node), TailTask("restoreDir", node, 0, V.dir)>>)

visitChildren(V, node) == Then(V, <<ChildrenTask(node)>>)

visitP(V, node) ==
    Then(Emit(V, <<Op("paragraphBreak", <<>>)>>),
         <<ChildrenTask(node), OpTask("paragraphBreak")>>)

\* collect(node, f) running f on the text: f is named by the handler
collect(V, node, f, n) ==
    IF V.exc THEN V
    ELSE Then([V EXCEPT !.sinks = Append(@, Collector)],
              <<ChildrenTask(node), TailTask("collected", node, n, f)>>)

visitSUB(V, node) == collect(V, node, "SUB", 0)

visitSUP(V, node) ==
    IF options.noRefs /\ "Template-Fact" \in node.class THEN V
    ELSE collect(V, node, "SUP", 0)

visitCENTER(V, node) ==
    Then(Emit(V, <<Op("lineBreak", <<>>)>>),
         <<ChildrenTask(node), OpTask("lineBreak")>>)

visitBR(V, node) == Emit(V, <<Op("lineBreak", <<>>)>>)

HeadingLevel(name) ==
    CASE name = "H1" -> 1 [] name = "H2" -> 2 [] name = "H3" -> 3
      [] name = "H4" -> 4 [] name = "H5" -> 5 [] name = "H6" -> 6

\* a visitHn that does not test options.singleItem
visitHnNoSuppress(V, node, level) ==
    collect(V, node, "Hn", IF options.hasChapters THEN level ELSE level - 1)

visitHn(V, node, level) ==
    LET n == IF options.hasChapters THEN level ELSE level - 1
    IN  IF options.singleItem /\ n = 0 THEN V
        ELSE collect(V, node, "Hn", n)

visitRELreferences(V, node) ==
    IF options.noRefs THEN V ELSE collect(V, node, "ref", 0)

visitList(V, node) ==
    IF ~HasFirstChild(node) THEN V
    ELSE Then([V EXCEPT !.listInfo = NewListInfo(node.nodeName, V.listInfo)],
              <<ChildrenTask(node),
                TailTask("restoreList", node, 0, V.listInfo)>>)

Bullets == <<"*", "-", "+">>
Closers == <<".", ")", "]">>
\* this.listInfo === 'OL': listInfo is an object, never identical to a
\* string
ListInfoIsOL(li) == FALSE

\* a visitLI that takes the first glyph at every depth
visitLIOneGlyph(V, node) ==
    Then(Emit(V, <<Op("indent", <<Bullets[1]>>)>>),
         <<ChildrenTask(node), OpTask("dedent")>>)

visitLI(V, node) ==
    LET depth == V.listInfo.depth % 3
        ol == ListInfoIsOL(V.listInfo)
        tag == IF ol THEN Decimal(V.listInfo.num + 1) \o <<Closers[depth + 1]>>
               ELSE <<Bullets[depth + 1]>>
        V1 == IF ol THEN [V EXCEPT !.listInfo.num = @ + 1] ELSE V
    IN  Then(Emit(V1, <<Op("indent", tag)>>),
             <<ChildrenTask(node), OpTask("dedent")>>)

MathHandler == Handler("typeof", "mw:Extension/math")
\* the call v(node, "display") of visitDL
DisplayMath(node) == Task("call", MathHandler, node, 1, <<>>)

IsDT(n) == n.nodeName = "DT"
OnlyMath(dd) ==
    LET es == ElementChildren(dd)
    IN  Len(es) = 1 /\ es[1].typeof = "mw:Extension/math"

visitDL(V, node) ==
    LET es == ElementChildren(node)
        sawDT == SelectSeq(es, IsDT) # <<>>
        \* the loop stops after the first DT
        seen == IF sawDT
                THEN SubSeq(es, 1, CHOOSE i \in 1..Len(es) :
                        IsDT(es[i]) /\ \A j \in 1..(i - 1) : ~IsDT(es[j]))
                ELSE es
        allMath == \A i \in 1..Len(seen) : OnlyMath(seen[i])
    IN  IF ~HasFirstChild(node) THEN V
        ELSE IF allMath /\ ~sawDT
        THEN Then(V, [i \in 1..Len(es) |->
                        DisplayMath(ElementChildren(es[i])[1])])
        ELSE Then([V EXCEPT !.listInfo =
                        NewListInfo(IF sawDT THEN node.nodeName
                                    ELSE "BLOCKQUOTE", V.listInfo)],
                  <<ChildrenTask(node),
                    TailTask("endDL", node, 0, V.listInfo)>>)

endDL(V, wasListInfo) ==
    LET V1 == IF V.listInfo.sawDT THEN Emit(V, <<Op("dedent", <<>>)>>) ELSE V
    IN  IF V1.exc THEN V1 ELSE [V1 EXCEPT !.listInfo = wasListInfo]

visitDT(V, node) ==
    LET V1 == IF V.listInfo.sawDT THEN Emit(V, <<Op("dedent", <<>>)>>) ELSE V
        V2 == IF V1.exc THEN V1 ELSE [V1 EXCEPT !.listInfo.sawDT = FALSE]
    IN  collect(V2, node, "DT", 0)

visitDD(V, node) ==
    LET V1 == IF ~V.listInfo.sawDT THEN Emit(V, <<Op("indent", <<>>)>>) ELSE V
        V2 == IF V1.exc THEN V1 ELSE [V1 EXCEPT !.listInfo.sawDT = TRUE]
    IN  Then(V2, <<ChildrenTask(node)>>)

visitBLOCKQUOTE(V, node) ==
    Then(Emit(V, <<Op("indent", <<>>)>>),
         <<ChildrenTask(node), OpTask("dedent")>>)

visitTYPEOFreferences(V, node) ==
    IF options.noRefs THEN V
    ELSE Then(V, <<TailTask("refs", node, 1, <<>>)>>)

\* one round of the loop of visitTYPEOF=mw:Extension/references
referencesLoop(V, node, i) ==
    IF i > Len(node.kids) THEN V
    ELSE Then(Emit(V, <<Op("indent",
                            textEscape(<<"[">> \o Decimal(i) \o <<"]">>))>>),
              <<ChildrenTask(node.kids[i]), OpTask("dedent"),
                TailTask("refs", node, i + 1, <<>>)>>)

\* visitMultipleImage: the figures it finds are skipped by visitFIGURE
visitDIV(V, node) ==
    IF isMultipleImageTemplate(node)
    THEN [V EXCEPT !.templates = @ \cup {node.about}]
    ELSE Then(Emit(V, <<Op("lineBreak", <<>>)>>),
              <<ChildrenTask(node), OpTask("lineBreak")>>)

Digits == {"0", "1", "2", "3", "4", "5", "6", "7", "8", "9"}
\* /^\[\d+\]$/.test(s)
IsRefMark(s) ==
    /\ Len(s) >= 3
    /\ s[1] = "[" /\ s[Len(s)] = "]"
    /\ \A i \in 2..(Len(s) - 1) : s[i] \in Digits

\* the replacement of visitSUB and visitSUP without the flag g: the first
\* character only
MapFirst(s, map) == <<map[s[1]]>> \o Tail(s)

collectedFirstOnly(V, node, f, n) ==
    LET c == V.sinks[Len(V.sinks)]
        contents == CollectedText(c)
        V1 == [V EXCEPT !.sinks = SubSeq(@, 1, Len(@) - 1)]
    IN  IF f \in {"SUB", "SUP"}
        THEN LET map == IF f = "SUB" THEN submap ELSE supmap
             IN  Emit(V1, <<Op("write",
                    IF AllIn(contents, map) THEN MapFirst(contents, map)
                    ELSE textEscape(contents))>>)
        ELSE V1

\* the end of collect: b joined and compressed, this.format put back, f
\* called on the text
collected(V, node, f, n) ==
    LET c == V.sinks[Len(V.sinks)]
        contents == CollectedText(c)
        V1 == [V EXCEPT !.sinks = SubSeq(@, 1, Len(@) - 1)]
    IN  CASE f = "SUB" ->
                Emit(V1, <<Op("write",
                    IF AllIn(contents, submap) THEN MapChars(contents, submap)
                    ELSE textEscape(contents))>>)
          [] f = "SUP" ->
                Emit(V1, <<Op("write",
                    IF AllIn(contents, supmap) THEN MapChars(contents, supmap)
                    ELSE textEscape(contents))>>)
          [] f = "Hn" -> Emit(V1, <<Op("writeHeading", contents)>>)
          [] f = "DT" ->
                LET V2 == Emit(V1, <<Op("indent", contents)>>)
                IN  IF V2.exc THEN V2 ELSE [V2 EXCEPT !.listInfo.sawDT = TRUE]
          [] f = "ref" ->
                Then(V1, <<CallTask(Handler("tag", "SUP"),
                    IF IsRefMark(contents)
                    THEN Element("SUP",
                            <<Text(SubSeq(contents, 2, Len(contents) - 1)
                                    \o <<" ">>)>>)
                    ELSE node)>>)

----------------------------------------------------------------------------
(* The steps of a visit                                                    *)

\* new Visitor(document, format, options) with a new Formatter
NewVisitor(document) ==
    /\ doc = document
    /\ tasks = <<>>
    /\ sinks = <<>>
    /\ currentLanguage = (IF options.lang # "" THEN options.lang ELSE "en")
    /\ currentDirectionality = (IF options.dir # "" THEN options.dir ELSE "ltr")
    /\ listInfo = RootListInfo
    /\ usedLanguages = {}
    /\ templates = {}
    /\ vstatus = "idle"
    /\ trace = <<>>
    /\ lastVisit = NoVisit
    /\ lastRet = NoReturn
    /\ fmt = Formatter
    /\ hist = [op |-> "new", arg |-> <<>>, outLen |-> 0, newPara |-> TRUE,
               newLine |-> TRUE,
               exc |-> FALSE]
    /\ nops = 0

\* visitor.visit(node) is called on the document
VStart ==
    /\ vstatus = "idle"
    /\ tasks' = <<VisitTask(doc)>>
    /\ vstatus' = "run"
    /\ UNCHANGED <<fvars, mvars, gvars, doc, sinks, currentLanguage,
                   currentDirectionality, listInfo, usedLanguages, templates,
                   trace, lastVisit, lastRet>>

\* visit(node) up to the call of the handler
VVisit ==
    /\ At("visit")
    /\ LET node == CurrentTask.node
           ret == TailTask("return", node, 0, Snapshot(Here))
           text == textEscape(node.data)
           h == Dispatch(node, currentLanguage, currentDirectionality)
       IN  IF node.nodeType = "element"
           THEN Commit(Then(
                    [Here EXCEPT !.lastVisit = [node |-> node, handler |-> h,
                         lang |-> currentLanguage,
                         dir |-> currentDirectionality],
                                 !.used = IF h.by = "lang" THEN @ \cup {h.name}
                                          ELSE @],
                    IF h.by = "hidden" THEN <<ret>>
                    ELSE <<CallTask(h, node), ret>>))
           ELSE IF node.nodeType = "text"
           THEN Commit(Then(
                    Emit([Here EXCEPT !.lastVisit =
                            [node |-> node, handler |-> Handler("text", ""),
                             lang |-> currentLanguage,
                             dir |-> currentDirectionality]],
                         IF text # <<>> THEN <<Op("write", text)>> ELSE <<>>),
                    <<ret>>))
           ELSE Commit(Then(
                    [Here EXCEPT !.lastVisit =
                        [node |-> node, handler |-> Handler("other", ""),
                         lang |-> currentLanguage,
                         dir |-> currentDirectionality]],
                    <<ret>>))
    /\ UNCHANGED mvars

\* visit(node) returns
VReturn ==
    /\ At("return")
    /\ Commit([Here EXCEPT !.lastRet =
                [node |-> CurrentTask.node, before |-> CurrentTask.save,
                 after |-> Snapshot(Here)]])
    /\ UNCHANGED mvars

\* visitChildren(node): the next child, or the end of the loop
VChildren ==
    /\ At("children")
    /\ LET node == CurrentTask.node
           i == CurrentTask.i
       IN  Commit(IF i > Len(node.kids) THEN Here
                  ELSE Then(Here, <<VisitTask(node.kids[i]),
                                    [CurrentTask EXCEPT !.i = i + 1]>>))
    /\ UNCHANGED mvars

\* the call of this.format a handler makes after its recursion
VOp ==
    /\ At("op")
    /\ Commit(Emit(Here, <<Op(CurrentTask.h.name, <<>>)>>))
    /\ UNCHANGED mvars

VisitLANG ==
    /\ Calling("lang", {CurrentTask.node.lang})
    /\ Commit(visitLANG(Here, CurrentTask.node))
    /\ UNCHANGED mvars

RestoreLANG ==
    /\ At("restoreLang")
    /\ Commit([Here EXCEPT !.lang = CurrentTask.save[1],
                           !.dir = CurrentTask.save[2]])
    /\ UNCHANGED mvars

\* visitDIR=, with its console.warn
VisitDIR ==
    /\ Calling("dir", {CurrentTask.node.dir})
    /\ Commit(visitDIR(Here, CurrentTask.node))
    /\ warnLog' = Append(warnLog, [kind |-> "dir", name |-> CurrentTask.node.dir])
    /\ UNCHANGED <<minput, mstack, mstatus, mret, warned, ncalls>>

RestoreDIR ==
    /\ At("restoreDir")
    /\ Commit([Here EXCEPT !.dir = CurrentTask.save])
    /\ UNCHANGED mvars

\* visitTYPEOF=mw:Extension/math up to the call of cleanMath; reading
\* .body.extsrc of anything but the extension's data throws
VisitMath ==
    /\ Calling("typeof", {"mw:Extension/math"})
    /\ LET node == CurrentTask.node
           m == EnvMatch(node.dataMw.extsrc)
           math == IF ~m.ok THEN node.dataMw.extsrc
                   ELSE IF m.name \in TableEnvNames THEN cleanMathTable(m.body)
                   ELSE m.body
           display == IF m.ok \/ CurrentTask.i = 1 THEN 1 ELSE 0
       IN  IF node.dataMw.kind # "math"
           THEN Commit([Here EXCEPT !.exc = TRUE]) /\ UNCHANGED mvars
           ELSE /\ Commit(Then(Here,
                        <<TailTask("mathDone", node, display, <<>>)>>))
                /\ StartMath(math)
                /\ UNCHANGED <<warned, warnLog>>

\* cleanMath has returned or thrown: the write and the line break
MathDone ==
    /\ At("mathDone")
    /\ mstatus \in {"done", "threw"}
    /\ Commit(IF mstatus = "threw" THEN [Here EXCEPT !.exc = TRUE]
              ELSE Emit(Here, <<Op("write", mret)>> \o
                        (IF CurrentTask.i = 1 THEN <<Op("lineBreak", <<>>)>>
                         ELSE <<>>)))
    /\ UNCHANGED mvars

VisitReferences ==
    /\ Calling("typeof", {"mw:Extension/references"})
    /\ Commit(visitTYPEOFreferences(Here, CurrentTask.node))
    /\ UNCHANGED mvars

ReferencesLoop ==
    /\ At("refs")
    /\ Commit(referencesLoop(Here, CurrentTask.node, CurrentTask.i))
    /\ UNCHANGED mvars

VisitRELreferences ==
    /\ Calling("rel", {"dc:references"})
    /\ Commit(visitRELreferences(Here, CurrentTask.node))
    /\ UNCHANGED mvars

\* visitREL=mw:referencedBy, visitTABLE, visitFIGURE and the image
\* handlers, which call visitFIGURE, do nothing
VisitNothing ==
    /\ At("call")
    /\ CurrentTask.h \in
            {Handler("rel", "mw:referencedBy"), Handler("typeof", "mw:Image"),
             Handler("typeof", "mw:Image/Thumb"), Handler("tag", "TABLE"),
             Handler("tag", "FIGURE")}
    /\ Commit(Here)
    /\ UNCHANGED mvars

\* visitBODY, visitA and the default of visit
VisitChildren ==
    /\ At("call")
    /\ CurrentTask.h \in
            {Handler("tag", "BODY"), Handler("tag", "A"),
             Handler("children", "")}
    /\ Commit(visitChildren(Here, CurrentTask.node))
    /\ UNCHANGED mvars

VisitP ==
    /\ Calling("tag", {"P"})
    /\ Commit(visitP(Here, CurrentTask.node))
    /\ UNCHANGED mvars

VisitSUB ==
    /\ Calling("tag", {"SUB"})
    /\ Commit(visitSUB(Here, CurrentTask.node))
    /\ UNCHANGED mvars

VisitSUP ==
    /\ Calling("tag", {"SUP"})
    /\ Commit(visitSUP(Here, CurrentTask.node))
    /\ UNCHANGED mvars

VisitCENTER ==
    /\ Calling("tag", {"CENTER"})
    /\ Commit(visitCENTER(Here, CurrentTask.node))
    /\ UNCHANGED mvars

VisitBR ==
    /\ Calling("tag", {"BR"})
    /\ Commit(visitBR(Here, CurrentTask.node))
    /\ UNCHANGED mvars

VisitHn ==
    /\ Calling("tag", {"H1", "H2", "H3", "H4", "H5", "H6"})
    /\ Commit(visitHn(Here, CurrentTask.node,
                      HeadingLevel(CurrentTask.node.nodeName)))
    /\ UNCHANGED mvars

VisitList ==
    /\ Calling("tag", {"UL", "OL"})
    /\ Commit(visitList(Here, CurrentTask.node))
    /\ UNCHANGED mvars

RestoreList ==
    /\ At("restoreList")
    /\ Commit([Here EXCEPT !.listInfo = CurrentTask.save])
    /\ UNCHANGED mvars

VisitLI ==
    /\ Calling("tag", {"LI"})
    /\ Commit(visitLI(Here, CurrentTask.node))
    /\ UNCHANGED mvars

VisitDL ==
    /\ Calling("tag", {"DL"})
    /\ Commit(visitDL(Here, CurrentTask.node))
    /\ UNCHANGED mvars

EndDL ==
    /\ At("endDL")
    /\ Commit(endDL(Here, CurrentTask.save))
    /\ UNCHANGED mvars

VisitDT ==
    /\ Calling("tag", {"DT"})
    /\ Commit(visitDT(Here, CurrentTask.node))
    /\ UNCHANGED mvars

VisitDD ==
    /\ Calling("tag", {"DD"})
    /\ Commit(visitDD(Here, CurrentTask.node))
    /\ UNCHANGED mvars

VisitBLOCKQUOTE ==
    /\ Calling("tag", {"BLOCKQUOTE"})
    /\ Commit(visitBLOCKQUOTE(Here, CurrentTask.node))
    /\ UNCHANGED mvars

VisitDIV ==
    /\ Calling("tag", {"DIV"})
    /\ Commit(visitDIV(Here, CurrentTask.node))
    /\ UNCHANGED mvars

Collected ==
    /\ At("collected")
    /\ Commit(collected(Here, CurrentTask.node, CurrentTask.save,
                        CurrentTask.i))
    /\ UNCHANGED mvars

NextVisit ==
    \/ VStart
    \/ VVisit
    \/ VReturn
    \/ VChildren
    \/ VOp
    \/ VisitLANG
    \/ RestoreLANG
    \/ VisitDIR
    \/ RestoreDIR
    \/ VisitMath
    \/ MathDone
    \/ MScan
    \/ MArg
    \/ MCallArg
    \/ MReturn
    \/ MLookup
    \/ VisitReferences
    \/ ReferencesLoop
    \/ VisitRELreferences
    \/ VisitNothing
    \/ VisitChildren
    \/ VisitP
    \/ VisitSUB
    \/ VisitSUP
    \/ VisitCENTER
    \/ VisitBR
    \/ VisitHn
    \/ VisitList
    \/ RestoreList
    \/ VisitLI
    \/ VisitDL
    \/ EndDL
    \/ VisitDT
    \/ VisitDD
    \/ VisitBLOCKQUOTE
    \/ VisitDIV
    \/ Collected

----------------------------------------------------------------------------
(* Documents                                                               *)

\* a document that reaches every handler
KitchenSink ==
    Element("BODY", <<
        Element("H2", <<Text(<<"T">>)>>),
        Element("P", <<
            Text(<<"H">>),
            Element("SUB", <<Text(<<"2">>)>>),
            Text(<<"O">>),
            Element("SUP", <<Text(<<"q">>)>>),
            Element("BR", <<>>),
            [Element("SPAN", <<Text(<<"s">>)>>)
                EXCEPT !.lang = "he", !.dir = "ltr"],
            Element("A", <<Text(<<"l">>)>>)>>),
        [Element("SPAN", <<>>) EXCEPT !.typeof = "mw:Extension/math",
                                      !.dataMw = MathData(SqrtFour)],
        Element("CENTER", <<Text(<<"c">>)>>),
        Element("UL", <<Element("LI", <<Text(<<"i">>)>>)>>),
        Element("DL", <<Element("DT", <<Text(<<"t">>)>>),
                        Element("DD", <<Text(<<"d">>)>>)>>),
        Element("BLOCKQUOTE", <<Text(<<"b">>)>>),
        Element("DIV", <<Element("TABLE", <<>>)>>),
        [Element("OL", <<Element("LI", <<Text(<<"r">>)>>)>>)
            EXCEPT !.typeof = "mw:Extension/references"],
        [Element("SPAN", <<Text(<<"[", "1", "]">>)>>)
            EXCEPT !.rel = "dc:references"]>>)

CommonDocuments == {KitchenSink}

InitVisit(documents, optionSets) ==
    /\ MathIdle
    /\ DriverIdle
    /\ options \in optionSets
    /\ \E d \in documents : NewVisitor(d)

\* the trees of at most n nodes whose elements are those of the set
\* elements, given children, with the text "a" for leaves
Leaf == Text(<<"a">>)

RECURSIVE Forests(_, _)
Forests(elements, n) ==
    IF n = 0 THEN {<<>>}
    ELSE {<<>>} \cup UNION {
            {<<t>> \o f :
                t \in {Leaf} \cup {[e EXCEPT !.kids = kids] :
                            e \in elements, kids \in Forests(elements, k - 1)},
                f \in Forests(elements, n - k)} : k \in 1..n}

Trees(elements, n) ==
    {[e EXCEPT !.kids = kids] :
        e \in elements, kids \in Forests(elements, n - 1)}

----------------------------------------------------------------------------
(* SpecLists: a visit of any small tree of lists and description lists     *)

MaxListNodes == 4

ListElements == {Element(name, <<>>) : name \in {"OL", "LI", "DL", "DT", "DD"}}

Item(c) == Element("LI", <<Text(<<c>>)>>)
OrderedFour == Element("OL", <<Item("a"), Item("b"), Item("c"), Item("d")>>)
\* <div><dd>x</dd></div>
StrayDD == Element("DIV", <<Element("DD", <<Text(<<"x">>)>>)>>)

\* <body><h2><dt>x</dt></h2><dt>y</dt></body>
HeadingDT ==
    Element("BODY", <<Element("H2", <<Element("DT", <<Text(<<"x">>)>>)>>),
                      Element("DT", <<Text(<<"y">>)>>)>>)

ListDocuments ==
    Trees(ListElements, MaxListNodes) \cup {OrderedFour, StrayDD, HeadingDT}
        \cup CommonDocuments

InitLists == InitVisit(ListDocuments, {DefaultOptions})

SpecLists == InitLists /\ [][NextVisit]_vars

\* C2: when visit(node) returns, the Formatter's stack of indent states is
\* as deep as it was when visit(node) was called, for every node of the
\* tree, DT and DD outside a DL included.
C2_IndentBalanced == lastRet.after.depth = lastRet.before.depth

\* the tags handed to indent() on the Formatter, in order
RECURSIVE IndentTags(_)
IndentTags(tr) ==
    IF tr = <<>> THEN <<>>
    ELSE IF Head(tr).op = "indent" /\ Head(tr).sink = 0
         THEN <<Head(tr).arg>> \o IndentTags(Tail(tr))
         ELSE IndentTags(Tail(tr))

IsItems(kids) == \A i \in 1..Len(kids) : kids[i].nodeName = "LI"

\* C5: the items of a top-level ordered list are labelled 1.), 2.), 3.), ...
\* in document order: these are the tags of the indent() calls.
C5_OrderedLabels ==
    (vstatus = "done" /\ doc.nodeName = "OL" /\ IsItems(doc.kids))
        => IndentTags(trace)
            = [i \in 1..Len(doc.kids) |-> Decimal(i) \o <<".", ")">>]

----------------------------------------------------------------------------
(* SpecLang: a visit of any small tree of elements with lang and dir       *)

MaxLangNodes == 3

LangElements ==
    {[Element("SPAN", <<>>) EXCEPT !.lang = l, !.dir = d] :
        l \in {"", "he", "en"}, d \in {"", "rtl", "auto"}}

\* <p><span lang="he">x</span>y</p>
HebrewThenSibling ==
    Element("P", <<[Element("SPAN", <<Text(<<"x">>)>>) EXCEPT !.lang = "he"],
                   Text(<<"y">>)>>)

LangDocuments ==
    Trees(LangElements, MaxLangNodes) \cup {HebrewThenSibling}
        \cup CommonDocuments

LangOptions ==
    {DefaultOptions, [DefaultOptions EXCEPT !.lang = "he", !.dir = "rtl"]}

InitLang ==
    \/ InitVisit(LangDocuments, {DefaultOptions})
    \/ InitVisit(Trees(LangElements, MaxLangNodes - 1), LangOptions)

SpecLang == InitLang /\ [][NextVisit]_vars

\* the elements whose visit has not returned and that declare a language,
\* outermost first
Declaring(t) == t.k = "return" /\ t.node.lang # ""
\* the language declared by the nearest of them, or the Visitor's own
DeclaredLanguage ==
    LET open == SelectSeq(tasks, Declaring)
    IN  IF open = <<>>
        THEN (IF options.lang # "" THEN options.lang ELSE "en")
        ELSE open[Len(open)].node.lang

\* C3: when visit(element) returns, currentLanguage and
\* currentDirectionality are what they were at its call; the children of
\* an element are visited with the language the nearest enclosing lang
\* attribute declares, and a sibling that follows an element is visited
\* with the values that element was visited with.
C3_LangDirRestored ==
    /\ lastRet.after.lang = lastRet.before.lang
    /\ lastRet.after.dir = lastRet.before.dir
    /\ At("children") => currentLanguage = DeclaredLanguage
    /\ (At("children") /\ CurrentTask.i > 1)
            => /\ lastRet.node = CurrentTask.node.kids[CurrentTask.i - 1]
               /\ currentLanguage = lastRet.before.lang
               /\ currentDirectionality = lastRet.before.dir

\* a Hebrew element has returned and its sibling is about to be visited
\* left to right
C3_Witness ==
    /\ doc = HebrewThenSibling
    /\ At("children")
    /\ CurrentTask.i = 2
    /\ lastRet.node.lang = "he"
    /\ "he" \in usedLanguages
    /\ currentLanguage = "en"
    /\ currentDirectionality = "ltr"

----------------------------------------------------------------------------
(* SpecDispatch: a visit of one element with any mix of the attributes     *)
(* visit looks at                                                          *)

DispatchElements ==
    {[Element(name, <<Leaf>>) EXCEPT
            !.class = c, !.style = s, !.lang = l, !.dir = d, !.typeof = ty,
            !.rel = r, !.dataMw = dm, !.about = "#mwt1"] :
        name \in {"P", "SPAN", "DIV"},
        c \in {{}, {"noprint"}, {"navbox"}},
        s \in {"", "display:none"},
        l \in {"", "he"},
        d \in {"", "rtl", "auto"},
        ty \in {"", "mw:Image", "mw:Transclusion"},
        r \in {"", "mw:referencedBy", "nofollow"},
        dm \in {NoData, TemplateData("./Template:Double_image")}}

\* <span>a<i>b</i>c</span>
Unknown == Element("SPAN", <<Text(<<"a">>), Element("I", <<Text(<<"b">>)>>),
                            Text(<<"c">>)>>)

\* <div style="display:none"><p lang="he">a</p><ul><li>i</li></ul></div>
HiddenTree ==
    [Element("DIV", <<[Element("P", <<Leaf>>) EXCEPT !.lang = "he"],
                      Element("UL", <<Item("i")>>)>>)
        EXCEPT !.style = "display:none"]

DispatchDocuments ==
    DispatchElements \cup {Unknown, HiddenTree} \cup CommonDocuments

InitDispatch == InitVisit(DispatchDocuments, {DefaultOptions})

SpecDispatch == InitDispatch /\ [][NextVisit]_vars

\* the rules of visit in their order of priority
Priority == <<"hidden", "lang", "dir", "typeof", "rel", "tag", "children">>

\* rule `by` matches the element when the current language and
\* directionality are lang and dir
Matches(by, node, lang, dir) ==
    CASE by = "hidden" ->
            /\ \/ "noprint" \in node.class
               \/ node.style \in HidingStyles
               \/ node.class \cap HiddenClasses # {}
            /\ ~isMultipleImageTemplate(node)
      [] by = "lang" -> node.lang \notin {"", lang}
      [] by = "dir" -> node.dir \notin {"", "auto", dir}
      [] by = "typeof" -> node.typeof \in TypeofHandlers
      [] by = "rel" -> node.rel \in RelHandlers
      [] by = "tag" -> node.nodeName \in TagHandlers
      [] by = "children" -> TRUE

FirstRule(node, lang, dir) ==
    Priority[CHOOSE i \in 1..Len(Priority) :
                /\ Matches(Priority[i], node, lang, dir)
                /\ \A j \in 1..(i - 1) : ~Matches(Priority[j], node, lang, dir)]

RECURSIVE Writes(_)
Writes(tr) ==
    IF tr = <<>> THEN <<>>
    ELSE IF Head(tr).op = "write" THEN <<Head(tr).arg>> \o Writes(Tail(tr))
    ELSE Writes(Tail(tr))

\* C4: the handler visit picks for an element is that of the first rule,
\* in the order hidden, language, directionality, typeof, rel, tag,
\* children, that matches it; a typeof or rel value without a handler does
\* not match; and an element no rule matches gives the sink the calls of
\* its children, in document order.
C4_Priority ==
    /\ lastVisit.node.nodeType = "element"
        => lastVisit.handler.by
                = FirstRule(lastVisit.node, lastVisit.lang, lastVisit.dir)
    /\ (vstatus = "done" /\ doc = Unknown)
        => /\ Writes(trace) = <<<<"a">>, <<"b">>, <<"c">>>>
           /\ Len(trace) = 3

\* an element with a typeof that has no handler and a rel that has one was
\* handled by its rel
C4_Witness ==
    /\ vstatus = "done"
    /\ doc.typeof = "mw:Transclusion"
    /\ lastVisit.node = doc
    /\ lastVisit.handler = Handler("rel", "mw:referencedBy")

\* the marks isHidden looks for
HiddenMark(node) ==
    \/ "noprint" \in node.class
    \/ node.style \in HidingStyles
    \/ node.class \cap HiddenClasses # {}

\* C11: the visit of an element with the class noprint, a display:none
\* style or one of the fixed classes, that is not a multiple-image
\* transclusion, calls no sink and leaves language, directionality, listInfo,
\* usedLanguages and the indent stack as they were, whatever its children,
\* attributes and tag; a multiple-image transclusion with such a mark is
\* not handled as hidden.
C11_HiddenSilent ==
    /\ (/\ lastRet.node.nodeType = "element"
        /\ HiddenMark(lastRet.node)
        /\ ~isMultipleImageTemplate(lastRet.node))
            => lastRet.after = lastRet.before
    /\ (/\ lastVisit.node.nodeType = "element"
        /\ HiddenMark(lastVisit.node)
        /\ isMultipleImageTemplate(lastVisit.node))
            => lastVisit.handler.by # "hidden"

\* the visit of a display:none element with a paragraph in another
\* language and a list below it has returned without a call of the sink
C11_Witness ==
    /\ vstatus = "done"
    /\ doc = HiddenTree
    /\ lastRet.node = doc
    /\ trace = <<>>
    /\ usedLanguages = {}

----------------------------------------------------------------------------
(* SpecMeta: a visit of a paragraph that holds an element with any         *)
(* data-mw, and a text after it                                            *)

MetaElements ==
    {[Element(name, <<Leaf>>) EXCEPT !.typeof = ty, !.dataMw = dm] :
        name \in {"SPAN", "DIV"},
        ty \in {"", "mw:Transclusion", "mw:Extension/math"},
        dm \in {NoData, BadJSON, OtherJSON, MathData(<<"x">>),
                TemplateData("./Template:Double_image")}}

\* <p><span typeof=... data-mw=...>a</span>z</p>
MetaDocuments == {Element("P", <<e, Text(<<"z">>)>>) : e \in MetaElements}

InitMeta == InitVisit(MetaDocuments \cup CommonDocuments, {DefaultOptions})

SpecMeta == InitMeta /\ [][NextVisit]_vars

\* C12: a visit never throws because of the data-mw of a node, be it
\* missing, not JSON or without the fields read, on a transclusion or on a
\* math extension node; the visit goes on to the rest of the document: the
\* text after the node is written and the paragraph is closed.
C12_MetadataCaught ==
    doc \in MetaDocuments =>
        /\ vstatus # "threw"
        /\ vstatus = "done" =>
            /\ Writes(trace)[Len(Writes(trace))] = <<"z">>
            /\ trace[Len(trace)].op = "paragraphBreak"

----------------------------------------------------------------------------
(* SpecSubSup: a visit of a SUB or SUP element holding any short text      *)

MaxLen == 3

\* a digit (safe in both alphabets), x (safe below only), q (safe in
\* neither), the blank and a curly quote
SubSupChars == {"2", "x", "q", " ", LDQUO}

RECURSIVE Strings(_, _)
Strings(chars, n) ==
    IF n = 0 THEN {<<>>}
    ELSE {<<>>} \cup {<<c>> \o s : c \in chars, s \in Strings(chars, n - 1)}

MathSpan(src) ==
    [Element("SPAN", <<>>) EXCEPT !.typeof = "mw:Extension/math",
                                  !.dataMw = MathData(src)]

\* <sub>2<br>2</sub>, <sup><sub>2</sub></sup> and a formula whose source is
\* a curly quote (cleanMath leaves it alone)
SubSupExamples ==
    {Element("SUB", <<Text(<<"2">>), Element("BR", <<>>), Text(<<"2">>)>>),
     Element("SUP", <<Element("SUB", <<Text(<<"2">>)>>)>>),
     Element("SUB", <<MathSpan(<<LDQUO, "q">>)>>),
     Element("SUP", <<>>)}

SubSupDocuments ==
    {[Element(name, <<Text(s)>>) EXCEPT !.class = c] :
        name \in {"SUB", "SUP"},
        s \in Strings(SubSupChars, MaxLen) \ {<<>>},
        c \in {{}, {"Template-Fact"}}}
    \cup SubSupExamples \cup CommonDocuments

SubSupOptions == {[DefaultOptions EXCEPT !.noRefs = r] : r \in BOOLEAN}

InitSubSup == InitVisit(SubSupDocuments, SubSupOptions)

SpecSubSup == InitSubSup /\ [][NextVisit]_vars

SafeMap(name) == IF name = "SUB" THEN submap ELSE supmap
AllSafe(s, name) == \A i \in 1..Len(s) : s[i] \in DOMAIN SafeMap(name)
Straight(c) ==
    IF c \in {LDQUO, RDQUO} THEN "\""
    ELSE IF c \in {LSQUO, RSQUO} THEN "'" ELSE c

\* a SUB or SUP element holding one text
OneText ==
    /\ doc.nodeName \in {"SUB", "SUP"}
    /\ Len(doc.kids) = 1
    /\ doc.kids[1].nodeType = "text"
\* its flattened text
Flattened == CollapseWS(textEscape(doc.kids[1].data))
\* visitSUP skips the element
Skipped(node) ==
    node.nodeName = "SUP" /\ options.noRefs /\ "Template-Fact" \in node.class

\* the text f is about to be called with
Contents == CollectedText(sinks[Len(sinks)])
SubSupCollected ==
    At("collected") /\ CurrentTask.save \in {"SUB", "SUP"} /\ Contents # <<>>

\* the claim C6 as made: a SUB or SUP with a non-empty flattened text
\* writes its transliteration when all its characters are safe, the
\* flattened text unchanged when one is not.
C6_AsClaimed ==
    (vstatus = "done" /\ OneText /\ Flattened # <<>>)
        => /\ trace # <<>>
           /\ trace[Len(trace)]
                = [sink |-> 0, op |-> "write",
                   arg |-> IF AllSafe(Flattened, doc.nodeName)
                           THEN [i \in 1..Len(Flattened) |->
                                    SafeMap(doc.nodeName)[Flattened[i]]]
                           ELSE Flattened]

\* C6, amended: a SUP of class Template-Fact is skipped when noRefs is set:
\* no sink is called.  Any other SUB or SUP collects its text; when the
\* text is not empty one write follows, on the sink that was active before
\* the element, of a text as long as the flattened one: each character
\* transliterated when all are safe, otherwise each character itself, a
\* curly quote as the straight one.
C6_SubSup ==
    /\ [][Calling("tag", {"SUB", "SUP"})
            => IF Skipped(CurrentTask.node)
               THEN trace' = trace /\ sinks' = sinks
               ELSE trace' = trace /\ Len(sinks') = Len(sinks) + 1]_vars
    /\ [][SubSupCollected
            => /\ Len(sinks') = Len(sinks) - 1
               /\ Len(trace') = Len(trace) + 1
               /\ LET w == trace'[Len(trace')]
                      name == CurrentTask.save
                  IN  /\ w.op = "write"
                      /\ w.sink = Len(sinks')
                      /\ Len(w.arg) = Len(Contents)
                      /\ \A i \in 1..Len(Contents) :
                            w.arg[i] = IF AllSafe(Contents, name)
                                       THEN SafeMap(name)[Contents[i]]
                                       ELSE Straight(Contents[i])]_vars
    /\ []((vstatus = "done" /\ OneText /\ Flattened # <<>>
                /\ ~Skipped(doc))
            => /\ Len(trace) = 2
               /\ trace[1].sink = 1 /\ trace[1].op = "write"
               /\ CollapseWS(trace[1].arg) = Flattened
               /\ trace[2].sink = 0)

\* the subscript 2x was collected and written as its transliteration
C6_Witness ==
    /\ vstatus = "done"
    /\ doc.nodeName = "SUB"
    /\ OneText
    /\ Flattened = <<"2", "x">>
    /\ Len(trace) = 2
    /\ trace[2] = [sink |-> 0, op |-> "write", arg |-> <<"U+2082", "U+2093">>]


----------------------------------------------------------------------------
(* generateOutput and convert                                              *)

Range(q) == {q[i] : i \in 1..Len(q)}

\* an item of metabook.items; an article carries what the two stores hold
\* for it: the body of its document, the language of its wiki's siteinfo
\* ("" when siteinfo.general.lang is not set), and whether each get succeeds
Article(title, body, lang, docOK, siteOK) ==
    [type |-> "article", title |-> title, body |-> body, lang |-> lang,
     docOK |-> docOK, siteOK |-> siteOK, items |-> <<>>]
Chapter(title, items) ==
    [type |-> "chapter", title |-> title, body |-> Comment, lang |-> "",
     docOK |-> TRUE, siteOK |-> TRUE, items |-> items]

\* The order P.forEachSeq(metabook.items, ...) and, inside write.chapter,
\* P.forEachSeq(item.items, write.article) take the items in: one after
\* another, each when the promise of the one before has resolved.
RECURSIVE Manifest(_)
Manifest(items) ==
    IF items = <<>> THEN <<>>
    ELSE (IF Head(items).type = "chapter"
          THEN <<Head(items)>> \o Head(items).items
          ELSE <<Head(items)>>) \o Manifest(Tail(items))

Plan == Manifest(metabook.items)

hasChapters(book) == \E i \in 1..Len(book.items) : book.items[i].type = "chapter"
singleItem(book) == ~hasChapters(book) /\ Len(book.items) <= 1
\* options.lang || metabook.lang || 'en'
collectionLanguage(cli, book) ==
    IF cli # "" THEN cli ELSE IF book.lang # "" THEN book.lang ELSE "en"

\* the options object of new Visitor(document, format, {...}), put with the
\* options of the Formatter
VisitorOptions(cli, book) ==
    [DefaultOptions EXCEPT
        !.singleItem = singleItem(book),
        !.hasChapters = hasChapters(book),
        !.lang = collectionLanguage(cli, book),
        !.dir = PolyglossiaDir(collectionLanguage(cli, book))]

\* Formatter.prototype.writeTitle; <<>> stands for no subtitle
FWriteTitle(F, title, subtitle) ==
    LET F1 == FLineBreak(FText(F, Trim(title)))
        F2 == IF subtitle # <<>> THEN FLineBreak(FText(F1, Trim(subtitle)))
              ELSE F1
    IN  FParagraphBreak(F2)

\* Formatter.prototype.writeSummary
FWriteSummary(F, summary) ==
    FParagraphBreak(FDedent(FText(FIndent(FParagraphBreak(F), <<>>),
                                  Trim(summary))))

\* the h1 element generateOutput makes for the title of an article
TitleElement(it, articleLanguage) ==
    Element("H1", <<[Element("SPAN", <<Text(it.title)>>)
                        EXCEPT !.lang = articleLanguage]>>)

\* siteinfo.general.lang || collectionLanguage
ArticleLanguage(it) == IF it.lang # "" THEN it.lang ELSE options.lang

\* the points where generateOutput waits for a promise: only there do the
\* callbacks of the stream and of the stores run
AsyncPoints == {"getdoc", "getsite", "await", "finalFlush", "ending"}

\* the promise write.article returns for item k settles as if the flush
\* were not returned: it is resolved once flush() has been called
ArticleResolvedEarly(k) == k \in flushing \cup Range(flushed)

\* the promise write.article returns is that of format.flush()
ArticleResolved(k) == k \in Range(flushed)

\* the rejection handler of convert, with the exit code left alone
ConvertErrorNoCode(e) == e

\* the rejection handler of convert
ConvertError(e) == IF e.exitCode = 0 THEN [e EXCEPT !.exitCode = 1] ELSE e

\* the start of generateOutput, up to the first P.forEachSeq; textEscape of
\* a title that is not there throws
GStart ==
    /\ gpc = "start"
    /\ LET given == IF metabook.title = <<>> /\ Len(metabook.items) = 1
                    THEN metabook.items[1].title ELSE metabook.title
           title == CollapseWS(textEscape(given))
           F1 == FWriteTitle(fmt, title,
                             CollapseWS(textEscape(metabook.subtitle)))
           F2 == IF metabook.summary # <<>>
                 THEN FWriteSummary(F1, CollapseWS(textEscape(metabook.summary)))
                 ELSE F1
       IN  IF given = <<>>
           THEN /\ gpc' = "failed"
                /\ err' = [kind |-> "title", exitCode |-> 0]
                /\ UNCHANGED <<fmt, item, bookLanguages>>
           ELSE /\ fmt' = F2
                /\ gpc' = "item"
                /\ item' = 1
                /\ bookLanguages' = {options.lang}
                /\ err' = err
    /\ UNCHANGED <<options, hist, nops, mvars, vvars, metabook, started,
                   flushing, flushed, writeStream>>

\* write.chapter: the heading, then the articles of the chapter
GChapter ==
    /\ gpc = "item"
    /\ item <= Len(Plan)
    /\ Plan[item].type = "chapter"
    /\ fmt' = FWriteHeading(fmt, textEscape(Plan[item].title))
    /\ item' = item + 1
    /\ UNCHANGED <<options, hist, nops, mvars, vvars, metabook, gpc, started,
                   flushing, flushed, writeStream, bookLanguages, err>>

\* write.article up to pdb.get(key, 'nojson')
GArticle ==
    /\ gpc = "item"
    /\ item <= Len(Plan)
    /\ Plan[item].type = "article"
    /\ started' = Append(started, item)
    /\ gpc' = "getdoc"
    /\ UNCHANGED <<fvars, mvars, vvars, metabook, item, flushing, flushed,
                   writeStream, bookLanguages, err>>

\* pdb.get settles: the document is made, and sidb.get is called
GDocument ==
    /\ gpc = "getdoc"
    /\ IF Plan[item].docOK
       THEN gpc' = "getsite" /\ err' = err
       ELSE gpc' = "failed" /\ err' = [kind |-> "lookup", exitCode |-> 0]
    /\ UNCHANGED <<fvars, mvars, vvars, metabook, item, started, flushing,
                   flushed, writeStream, bookLanguages>>

\* sidb.get settles: new Visitor(document, format, ...), and the h1
GSiteinfo ==
    /\ gpc = "getsite"
    /\ IF Plan[item].siteOK
       THEN /\ gpc' = "visitTitle"
            /\ err' = err
            /\ doc' = TitleElement(Plan[item], ArticleLanguage(Plan[item]))
            /\ tasks' = <<>>
            /\ sinks' = <<>>
            /\ currentLanguage' = options.lang
            /\ currentDirectionality' = options.dir
            /\ listInfo' = RootListInfo
            /\ usedLanguages' = {}
            /\ templates' = {}
            /\ vstatus' = "idle"
            /\ trace' = <<>>
            /\ lastVisit' = NoVisit
            /\ lastRet' = NoReturn
       ELSE /\ gpc' = "failed"
            /\ err' = [kind |-> "lookup", exitCode |-> 0]
            /\ UNCHANGED vvars
    /\ UNCHANGED <<fvars, mvars, metabook, item, started, flushing, flushed,
                   writeStream, bookLanguages>>

\* visit(h1) has returned: document.body.lang is set for visit(body)
GBody ==
    /\ gpc = "visitTitle"
    /\ vstatus = "done"
    /\ doc' = [Plan[item].body EXCEPT
                !.lang = IF @ # "" THEN @ ELSE ArticleLanguage(Plan[item])]
    /\ vstatus' = "idle"
    /\ gpc' = "visitBody"
    /\ UNCHANGED <<fvars, mvars, tasks, sinks, currentLanguage,
                   currentDirectionality, listInfo, usedLanguages, templates,
                   trace, lastVisit, lastRet, metabook, item, started,
                   flushing, flushed, writeStream, bookLanguages, err>>

\* an exception leaves visit: the promise of write.article is rejected
GThrew ==
    /\ gpc \in {"visitTitle", "visitBody"}
    /\ vstatus = "threw"
    /\ gpc' = "failed"
    /\ err' = [kind |-> "visit", exitCode |-> 0]
    /\ UNCHANGED <<fvars, mvars, vvars, metabook, item, started, flushing,
                   flushed, writeStream, bookLanguages>>

\* visit(body) has returned: the languages, the paragraph break, flush()
GFlush ==
    /\ gpc = "visitBody"
    /\ vstatus = "done"
    /\ bookLanguages' = bookLanguages \cup usedLanguages
    /\ fmt' = FFlush(FParagraphBreak(fmt))
    /\ flushing' = flushing \cup {item}
    /\ gpc' = "await"
    /\ UNCHANGED <<options, hist, nops, mvars, vvars, metabook, item,
                   started, flushed, writeStream, err>>

\* the callback of the empty write of flush(): function() { resolve(); },
\* whatever the stream reports to it
GFlushed ==
    /\ gpc \in AsyncPoints
    /\ \E k \in flushing :
        /\ flushing' = flushing \ {k}
        /\ flushed' = Append(flushed, k)
    /\ UNCHANGED <<fvars, mvars, vvars, metabook, gpc, item, started,
                   writeStream, bookLanguages, err>>

\* P.forEachSeq goes on to the next item
GNext ==
    /\ gpc = "await"
    /\ ArticleResolved(item)
    /\ item' = item + 1
    /\ gpc' = "item"
    /\ UNCHANGED <<fvars, mvars, vvars, metabook, started, flushing, flushed,
                   writeStream, bookLanguages, err>>

\* after the last item: format.flush()
GFinalFlush ==
    /\ gpc = "item"
    /\ item > Len(Plan)
    /\ fmt' = FFlush(fmt)
    /\ flushing' = flushing \cup {item}
    /\ gpc' = "finalFlush"
    /\ UNCHANGED <<options, hist, nops, mvars, vvars, metabook, item,
                   started, flushed, writeStream, bookLanguages, err>>

\* P.call(writeStream.end, writeStream, '')
GEnd ==
    /\ gpc = "finalFlush"
    /\ item \in Range(flushed)
    /\ fmt' = FWrite(fmt, <<>>)
    /\ gpc' = "ending"
    /\ UNCHANGED <<options, hist, nops, mvars, vvars, metabook, item,
                   started, flushing, flushed, writeStream, bookLanguages,
                   err>>

\* The callback of end(): generateOutput and convert resolve.  After a
\* failed write the callback gets no error from older versions of the
\* stream library and the error from newer ones.
GDone ==
    /\ gpc = "ending"
    /\ \E outcome \in (IF writeStream = "ok" THEN {"resolved"}
                       ELSE {"resolved", "failed"}) :
        /\ gpc' = outcome
        /\ err' = IF outcome = "failed"
                  THEN [kind |-> "end", exitCode |-> 0] ELSE err
    /\ UNCHANGED <<fvars, mvars, vvars, metabook, item, started, flushing,
                   flushed, writeStream, bookLanguages>>

\* the promise of generateOutput is rejected: the handler of convert
GRejected ==
    /\ gpc = "failed"
    /\ err' = ConvertError(err)
    /\ gpc' = "rejected"
    /\ UNCHANGED <<fvars, mvars, vvars, metabook, item, started, flushing,
                   flushed, writeStream, bookLanguages>>

\* a write handed to the stream fails (disk full, closed pipe)
SinkFails ==
    /\ gpc \in AsyncPoints
    /\ writeStream = "ok"
    /\ fmt.out # <<>>
    /\ writeStream' = "failed"
    /\ UNCHANGED <<fvars, mvars, vvars, metabook, gpc, item, started,
                   flushing, flushed, bookLanguages, err>>

\* the stream emits 'error'; generateOutput registers no listener, so the
\* event is thrown in the event loop and ends the process
GUncaught ==
    /\ gpc \in AsyncPoints
    /\ writeStream = "failed"
    /\ gpc' = "crashed"
    /\ UNCHANGED <<fvars, mvars, vvars, metabook, item, started, flushing,
                   flushed, writeStream, bookLanguages, err>>

NextBook ==
    \/ GStart
    \/ GChapter
    \/ GArticle
    \/ GDocument
    \/ GSiteinfo
    \/ GBody
    \/ GThrew
    \/ GFlush
    \/ GFlushed
    \/ GNext
    \/ GFinalFlush
    \/ GEnd
    \/ GDone
    \/ GRejected
    \/ SinkFails
    \/ GUncaught
    \/ NextVisit

----------------------------------------------------------------------------
(* SpecBook: a conversion of any collection of a small set                 *)

\* <body><p>text</p></body>
Paragraph(text) == Element("BODY", <<Element("P", <<Text(text)>>)>>)

Hello == <<"H", "e", "l", "l", "o", " ", "w", "o", "r", "l", "d", ".">>

Book(title, subtitle, summary, items) ==
    [title |-> title, subtitle |-> subtitle, summary |-> summary,
     lang |-> "", items |-> items]

\* one article, one plain paragraph
SingleBooks ==
    {Book(t, sub, sum, <<Article(<<"A">>, Paragraph(Hello), l, d, si)>>) :
        t \in {<<>>, <<"T">>}, sub \in {<<>>, <<"S">>},
        sum \in {<<>>, <<"m">>}, l \in {"", "he"}, d \in BOOLEAN,
        si \in BOOLEAN}

\* two articles
PairBooks ==
    {Book(<<"T">>, <<>>, <<>>,
          <<Article(<<"A">>, Paragraph(<<"a">>), "", d1, s1),
            Article(<<"B">>, Paragraph(<<"b">>), "", d2, s2)>>) :
        d1 \in BOOLEAN, s1 \in BOOLEAN, d2 \in BOOLEAN, s2 \in BOOLEAN}

\* a chapter of two articles, then an article
ChapterBooks ==
    {Book(<<"T">>, <<>>, <<>>,
          <<Chapter(<<"C">>,
                    <<Article(<<"A">>, Paragraph(<<"a">>), "", d1, TRUE),
                      Article(<<"B">>, Paragraph(<<"b">>), "", d2, TRUE)>>),
            Article(<<"D">>, Paragraph(<<"d">>), "", d3, TRUE)>>) :
        d1 \in BOOLEAN, d2 \in BOOLEAN, d3 \in BOOLEAN}

\* an article with every kind of element, and one whose visit throws
OtherBooks ==
    {Book(<<"T">>, <<>>, <<>>, <<Article(<<"A">>, KitchenSink, "", TRUE, TRUE)>>),
     Book(<<"T">>, <<>>, <<>>,
          <<Article(<<"A">>,
                Element("BODY", <<[Element("SPAN", <<>>) EXCEPT
                                    !.typeof = "mw:Extension/math"]>>),
                "", TRUE, TRUE),
            Article(<<"B">>, Paragraph(<<"b">>), "", TRUE, TRUE)>>)}

Books == SingleBooks \cup PairBooks \cup ChapterBooks \cup OtherBooks

InitBook ==
    /\ MathIdle
    /\ metabook \in Books
    /\ options = VisitorOptions("", metabook)
    /\ fmt = Formatter
    /\ hist = [op |-> "new", arg |-> <<>>, outLen |-> 0, newPara |-> TRUE,
               newLine |-> TRUE,
               exc |-> FALSE]
    /\ nops = 0
    /\ gpc = "start"
    /\ item = 0
    /\ started = <<>>
    /\ flushing = {}
    /\ flushed = <<>>
    /\ writeStream = "ok"
    /\ bookLanguages = {}
    /\ err = NoError
    /\ doc = Comment
    /\ tasks = <<>>
    /\ sinks = <<>>
    /\ currentLanguage = "en"
    /\ currentDirectionality = "ltr"
    /\ listInfo = RootListInfo
    /\ usedLanguages = {}
    /\ templates = {}
    /\ vstatus = "none"
    /\ trace = <<>>
    /\ lastVisit = NoVisit
    /\ lastRet = NoReturn

SpecBook == InitBook /\ [][NextBook]_vars

----------------------------------------------------------------------------
(* Claims about the conversion                                             *)

\* the indexes of the articles among the first n items of the manifest
IsArticleIndex(k) == Plan[k].type = "article"
ArticlesUpTo(n) == SelectSeq([k \in 1..n |-> k], IsArticleIndex)

Last(q) == q[Len(q)]
Increasing(q) == \A i, j \in 1..Len(q) : i < j => q[i] < q[j]

\* the paragraph of a body made by Paragraph
BodyText(it) == it.body.kids[1].kids[1].data

\* the blocks a collection of plain paragraphs gives, in manifest order:
\* the heading of a chapter, the heading and the paragraph of an article
RECURSIVE Blocks(_)
Blocks(plan) ==
    IF plan = <<>> THEN <<>>
    ELSE (IF Head(plan).type = "chapter" THEN <<Head(plan).title>>
          ELSE <<Head(plan).title, BodyText(Head(plan))>>)
            \o Blocks(Tail(plan))

\* the blocks among the chunks handed to the stream so far
IsBlock(chunk) == chunk \in Range(Blocks(Plan))
BlocksWritten == SelectSeq(fmt.out, IsBlock)

\* C13: the items are taken one after another in manifest order: the
\* lookups of an article start only when the flush() promise of every
\* article started before it has resolved; a traversal runs only for the
\* article started last, with no flush pending; and the blocks reach the
\* stream in manifest order.
C13_OneAfterAnother ==
    /\ started = ArticlesUpTo(IF started = <<>> THEN 0 ELSE Last(started))
    /\ \A i \in 1..(Len(started) - 1) : started[i] \in Range(flushed)
    /\ Increasing(flushed)
    /\ vstatus \in {"idle", "run"} =>
        /\ gpc \in {"visitTitle", "visitBody"}
        /\ item = Last(started)
        /\ flushing = {}
    /\ metabook \in PairBooks \cup ChapterBooks =>
        /\ Len(BlocksWritten) <= Len(Blocks(Plan))
        /\ BlocksWritten = SubSeq(Blocks(Plan), 1, Len(BlocksWritten))

\* a chapter of two articles and a third article are converted: three
\* lookups, three traversals, and the flushes resolved in order
C13_Witness ==
    /\ gpc = "resolved"
    /\ metabook \in ChapterBooks
    /\ started = <<2, 3, 4>>
    /\ flushed = <<2, 3, 4, 5>>
    /\ BlocksWritten = Blocks(Plan)


\* a collection of one article and no chapter, with a title (its own or
\* the article's) and no subtitle or summary
PlainSingle ==
    /\ metabook \in SingleBooks
    /\ metabook.subtitle = <<>>
    /\ metabook.summary = <<>>

\* C14: the conversion of a collection of one article whose body is one
\* plain paragraph hands the stream exactly the title line, a blank line,
\* the paragraph and a blank line: the heading made for the article's
\* title is not written, and the flushes add nothing after the blank line.
C14_SingleItem ==
    (gpc = "resolved" /\ PlainSingle) =>
        Output = (IF metabook.title # <<>> THEN metabook.title
                  ELSE metabook.items[1].title)
                    \o <<NL, NL>> \o Hello \o <<NL, NL>>

\* such a conversion has resolved, for an article in another language
\* than the collection's
C14_Witness ==
    /\ gpc = "resolved"
    /\ PlainSingle
    /\ metabook.title = <<"T">>
    /\ metabook.items[1].lang = "he"
    /\ bookLanguages = {"en", "he"}
    /\ Len(Output) = Len(Hello) + 5


\* a lookup of the current article has failed
LookupFailed == err.kind = "lookup"

\* C15: when pdb.get or sidb.get fails for an article, the promise of
\* convert is rejected, with an error whose exitCode is not 0; the article
\* is not visited; and from then on no article is looked up, no node is
\* visited and nothing is handed to the stream: what was written is what
\* the items before the article gave.
C15_LookupFatal ==
    /\ [](LookupFailed =>
            /\ gpc \in {"failed", "rejected"}
            /\ Last(started) = item
            /\ doc # TitleElement(Plan[item], ArticleLanguage(Plan[item]))
            /\ doc.kids # Plan[item].body.kids
            /\ vstatus # "run"
            /\ (metabook \in PairBooks \cup ChapterBooks =>
                    BlocksWritten = Blocks(SubSeq(Plan, 1, item - 1))))
    /\ [](gpc = "rejected" => err.exitCode # 0)
    /\ [][gpc = "failed" => gpc' = "rejected"]_vars
    /\ [][LookupFailed =>
            /\ started' = started
            /\ fmt' = fmt
            /\ vvars' = vvars
            /\ item' = item]_vars

\* the document of the second article of a chapter is not found: convert
\* is rejected with exit code 1 after the first article was written
C15_Witness ==
    /\ gpc = "rejected"
    /\ err = [kind |-> "lookup", exitCode |-> 1]
    /\ metabook \in ChapterBooks
    /\ started = <<2, 3>>
    /\ flushed = <<2>>
    /\ BlocksWritten = <<<<"C">>, <<"A">>, <<"a">>>>


\* C16: once a write to the output stream has failed, no promise of
\* flush() is resolved, and convert does not resolve: the failure is
\* propagated as a rejection.
C16_SinkFailureRejects ==
    /\ [][writeStream = "failed" => flushed' = flushed]_vars
    /\ [](writeStream = "failed" => gpc # "resolved")

----------------------------------------------------------------------------
(* SpecEscape: a visit of one text node holding any short string           *)

MaxText == 4

EscapeChars == {"\r", NL, "a", LDQUO, RSQUO}

EscapeDocuments == {Text(s) : s \in Strings(EscapeChars, MaxText)}

InitEscape ==
    InitVisit(EscapeDocuments \cup CommonDocuments, {DefaultOptions})

SpecEscape == InitEscape /\ [][NextVisit]_vars

\* C17: textEscape gives the same string when applied to its own result,
\* for the data of every text node; the text the visit writes is that
\* result, and nothing is written when it is empty.
C17_EscapeIdempotent ==
    (vstatus = "done" /\ doc \in EscapeDocuments) =>
        LET once == textEscape(doc.data)
        IN  /\ textEscape(once) = once
            /\ trace = IF once = <<>> THEN <<>>
                       ELSE <<[sink |-> 0, op |-> "write", arg |-> once]>>

\* a text with a leading newline, two carriage returns at its end and a
\* curly quote was written as the quote and the letter
C17_Witness ==
    /\ vstatus = "done"
    /\ doc = Text(<<NL, LDQUO, "a", "\r">>)
    /\ trace = <<[sink |-> 0, op |-> "write", arg |-> <<"\"", "a">>]>>

----------------------------------------------------------------------------
(* SpecBullets: a visit of any small tree of lists, and of lists nested    *)
(* in one another                                                          *)

MaxBulletNodes == 4
MaxDepth == 4

BulletElements == {Element(name, <<>>) : name \in {"UL", "OL", "LI"}}

\* <ul><li>a<ul><li>a ... </li></ul></li></ul>, d lists deep
RECURSIVE Nest(_)
Nest(d) ==
    Element("UL", <<Element("LI",
        <<Leaf>> \o (IF d > 1 THEN <<Nest(d - 1)>> ELSE <<>>))>>)

NestedLists == {Nest(d) : d \in 1..MaxDepth}

BulletDocuments ==
    Trees(BulletElements, MaxBulletNodes) \cup NestedLists
        \cup CommonDocuments

InitBullets == InitVisit(BulletDocuments, {DefaultOptions})

SpecBullets == InitBullets /\ [][NextVisit]_vars

\* the lists whose visit has not ended
IsListTail(t) == t.k \in {"restoreList", "endDL"}
OpenLists == Len(SelectSeq(tasks, IsListTail))

Cycle == <<"*", "-", "+">>

\* C18: visitLI opens the item with the glyph of the cycle * - + that the
\* number of lists open around the item, modulo 3, selects; so the items
\* of lists nested in one another take the glyphs of the cycle in turn;
\* and when the visit of a list returns, listInfo (depth and counter) is
\* what it was at its call.
C18_BulletCycle ==
    /\ [][Calling("tag", {"LI"}) =>
            Last(trace') = [sink |-> Len(sinks), op |-> "indent",
                            arg |-> <<Cycle[(OpenLists % 3) + 1]>>]]_vars
    /\ []((vstatus = "done" /\ doc \in NestedLists) =>
            \A i \in 1..Len(IndentTags(trace)) :
                IndentTags(trace)[i] = <<Cycle[(i % 3) + 1]>>)
    /\ [](lastRet.node.nodeName \in {"UL", "OL"} =>
            lastRet.after.listInfo = lastRet.before.listInfo)

\* four lists nested in one another gave the glyphs - + * -
C18_Witness ==
    /\ vstatus = "done"
    /\ doc = Nest(4)
    /\ IndentTags(trace) = << <<"-">>, <<"+">>, <<"*">>, <<"-">> >>
    /\ lastRet.node = doc
    /\ listInfo = RootListInfo

----------------------------------------------------------------------------
(* Claims about the Formatter's states                                     *)

\* the indent() calls made on the Formatter less the dedent() calls
RECURSIVE Opens(_)
Opens(tr) ==
    IF tr = <<>> THEN 0
    ELSE Opens(SubSeq(tr, 1, Len(tr) - 1))
            + (IF Last(tr).sink # 0 THEN 0
               ELSE IF Last(tr).op = "indent" THEN 1
               ELSE IF Last(tr).op = "dedent" THEN -1 ELSE 0)

\* C19: in every state the Formatter has a current state; its stack is as
\* deep as the number of indent scopes open (indent() calls less dedent()
\* calls); every state on the stack and the current one have an indent of
\* the tab width times their height, so that indent() adds exactly the tab
\* width and dedent() gives back the state before the matching indent().
C19_IndentStack ==
    /\ fmt.state # Undefined
    /\ \A i \in 1..Len(fmt.stateStack) :
        /\ fmt.stateStack[i] # Undefined
        /\ fmt.stateStack[i].indent = TabWidth * (i - 1)
    /\ fmt.state.indent = TabWidth * Len(fmt.stateStack)
    /\ Len(fmt.stateStack) = Opens(trace)


\* the chunks the last step handed to the stream: positions in fmt.out
NewChunks(before, after) == (Len(before.out) + 1)..Len(after.out)

\* C20: lineBreak() at line start changes nothing; a lineBreak() that
\* returns when text is buffered hands the stream the wrapped text of the
\* whole buffer and one terminator, empties the buffer and sets newLine.
\* Text is buffered exactly when newLine is not set, and whenever a call
\* (lineBreak, paragraphBreak, indent, dedent, flush) hands the stream a
\* terminator, either nothing was buffered or the wrapped text of the
\* whole buffer was handed over before it in the same call.
C20_LineBreak ==
    /\ [](fmt.newLine <=> fmt.buffer = <<>>)
    /\ [][(hist'.op = "lineBreak" /\ fmt.newLine) => fmt' = fmt]_vars
    /\ [][(hist'.op = "lineBreak" /\ ~fmt.newLine /\ ~hist'.exc) =>
            /\ fmt'.out = fmt.out \o
                    <<Wrap(fmt.state, Concat(fmt.buffer)), <<NL>> >>
            /\ fmt'.buffer = <<>>
            /\ fmt'.newLine]_vars
    /\ [][\A i \in NewChunks(fmt, fmt') :
            fmt'.out[i] = <<NL>> =>
                \/ fmt.buffer = <<>>
                \/ /\ fmt.state # Undefined
                   /\ \E j \in NewChunks(fmt, fmt') :
                        /\ j < i
                        /\ fmt'.out[j] = Wrap(fmt.state, Concat(fmt.buffer))]_vars

\* a lineBreak() inside an indent scope has just written the buffered
\* text of two write() calls and the terminator
C20_Witness ==
    /\ hist.op = "lineBreak"
    /\ ~hist.newLine
    /\ ~hist.exc
    /\ fmt.stateStack # <<>>
    /\ fmt.state # Undefined
    /\ Len(fmt.out) = hist.outLen + 2
    /\ fmt.out[Len(fmt.out) - 1] = Spaces(TabWidth) \o <<"a", " ", "b">>
    /\ fmt.out[Len(fmt.out)] = <<NL>>
    /\ fmt.buffer = <<>>

\* C21: write(text) at line start or paragraph start drops the leading
\* whitespace of text; if nothing is left the Formatter is as before the
\* call (buffer, both flags, stack, current state and output); otherwise
\* both flags are cleared and the rest of text is appended to the buffer.
\* When not at line start, text is appended as it is and both flags stay
\* cleared.
C21_Write ==
    [][hist'.op = "write" =>
        LET t == hist'.arg
        IN  IF fmt.newLine \/ fmt.newPara
            THEN \E k \in 0..Len(t) :
                    /\ \A i \in 1..k : t[i] \in WS
                    /\ k < Len(t) => t[k + 1] \notin WS
                    /\ IF k = Len(t) THEN fmt' = fmt
                       ELSE fmt' = [fmt EXCEPT
                                !.newLine = FALSE, !.newPara = FALSE,
                                !.buffer = Append(@, SubSeq(t, k + 1, Len(t)))]
            ELSE /\ fmt' = [fmt EXCEPT !.buffer = Append(@, t)]
                 /\ ~fmt'.newLine
                 /\ ~fmt'.newPara]_vars

\* a write(" b") at the start of a line that does not start a paragraph
\* has buffered "b"
C21_Witness ==
    /\ hist.op = "write"
    /\ hist.arg = <<" ", "b">>
    /\ hist.newLine
    /\ ~hist.newPara
    /\ fmt.buffer = << <<"b">> >>
    /\ ~fmt.newLine
    /\ ~fmt.newPara

\* C22: in every state of the Formatter, at paragraph start implies at
\* line start, whatever calls were made.
C22_ParaImpliesLine == fmt.newPara => fmt.newLine

\* a paragraphBreak() called in the middle of a line has ended the line
\* and the paragraph
C22_Witness ==
    /\ hist.op = "paragraphBreak"
    /\ ~hist.newLine
    /\ ~hist.exc
    /\ fmt.newPara
    /\ fmt.newLine

\* C27: in every state of the Formatter the line buffer is empty exactly
\* when the Formatter is at line start, whatever calls were made.
C27_BufferEmptyAtLineStart == (fmt.buffer = <<>>) <=> fmt.newLine

\* a flush() called in the middle of a line has emptied the buffer, and a
\* write() after it has filled it again
C27_Witness ==
    /\ hist.op = "write"
    /\ hist.newLine
    /\ ~hist.newPara
    /\ fmt.out # <<>>
    /\ fmt.out[Len(fmt.out)] = <<>>
    /\ Len(fmt.buffer) = 1
    /\ ~fmt.newLine

----------------------------------------------------------------------------
(* SpecCollect: a visit of any small tree of collecting elements           *)

MaxCollectNodes == 3

\* the handlers that call collect (SUB, Hn, DT) and one that writes a
\* break into the active sink
CollectElements == {Element(name, <<>>) : name \in {"SUB", "H2", "DT", "BR"}}
\* texts that end and start with a blank: two of them in a row, or one
\* before a break, put a run of whitespace into the collector's array
CollectLeaves == {Text(<<"a", " ">>), Text(<<" ", "b">>)}

RECURSIVE LeafyForests(_, _, _)
LeafyForests(leaves, elements, n) ==
    IF n = 0 THEN {<<>>}
    ELSE {<<>>} \cup UNION {
            {<<t>> \o f :
                t \in leaves \cup {[e EXCEPT !.kids = kids] :
                        e \in elements,
                        kids \in LeafyForests(leaves, elements, k - 1)},
                f \in LeafyForests(leaves, elements, n - k)} : k \in 1..n}

\* <dl><dt>a <sub> b<br>a </sub> b</dt></dl>
NestedCollect ==
    Element("DL", <<Element("DT",
        <<Text(<<"a", " ">>),
          Element("SUB", <<Text(<<" ", "b">>), Element("BR", <<>>),
                           Text(<<"a", " ">>)>>),
          Text(<<" ", "b">>)>>)>>)

CollectDocuments ==
    {[e EXCEPT !.kids = kids] :
        e \in CollectElements,
        kids \in LeafyForests(CollectLeaves, CollectElements,
                              MaxCollectNodes - 1)}
    \cup {NestedCollect} \cup CommonDocuments

InitCollect == InitVisit(CollectDocuments, {DefaultOptions})

SpecCollect == InitCollect /\ [][NextVisit]_vars

\* no two whitespace characters in a row
NoRun(s) == \A i \in 1..(Len(s) - 1) : ~(s[i] \in WS /\ s[i + 1] \in WS)

\* s without its whitespace
RECURSIVE Squeeze(_)
Squeeze(s) ==
    IF s = <<>> THEN <<>>
    ELSE IF Head(s) \in WS THEN Squeeze(Tail(s))
    ELSE <<Head(s)>> \o Squeeze(Tail(s))

\* with the n-th collector active, the Formatter and the collectors under
\* it are as they were
SinksBelowKept(n) ==
    n > 0 => /\ fmt' = fmt
             /\ \A i \in 1..(n - 1) : sinks'[i] = sinks[i]

\* C23: collect(node, f) makes a new collector the active sink, visits
\* the children of node and puts back the sink that was active before it
\* calls f.  While the children are visited nothing reaches the sinks
\* that were active before (the Formatter and the outer collectors keep
\* their state); the calls f makes go to the sink active before the
\* collect; when a visit returns, the active sink is the one of its call,
\* nested collects included, and at the end the Formatter is active; the
\* text given to f has no two whitespace characters in a row (and the
\* characters of the collected fragments that are not whitespace, in
\* their order).
C23_Collect ==
    /\ [](lastRet.after.sinks = lastRet.before.sinks)
    /\ [](vstatus = "done" => sinks = <<>>)
    /\ [][LET n == Len(sinks)
              new == (Len(trace) + 1)..Len(trace')
          IN  /\ Len(sinks') \in {n - 1, n, n + 1}
              /\ Len(sinks') = n => SinksBelowKept(n)
              /\ Len(sinks') = n + 1 =>
                    /\ SinksBelowKept(n)
                    /\ sinks'[n + 1] = Collector
                    /\ \A i \in new : trace'[i].sink = n
              /\ Len(sinks') = n - 1 =>
                    /\ At("collected")
                    /\ SinksBelowKept(n - 1)
                    /\ \A i \in new : trace'[i].sink = n - 1
                    /\ (CurrentTask.save \in {"Hn", "DT"}
                            /\ vstatus' # "threw") =>
                        /\ new # {}
                        /\ NoRun(trace'[Len(trace')].arg)
                        /\ Squeeze(trace'[Len(trace')].arg)
                                = Squeeze(Concat(sinks[n].b))]_vars

\* the visit of <dl><dt>a <sub> b<br>a </sub> b</dt></dl> has ended: the
\* SUB wrote its text into the collector of the DT, and the DT opened an
\* indent on the Formatter labelled with the compressed text
C23_Witness ==
    /\ vstatus = "done"
    /\ doc = NestedCollect
    /\ sinks = <<>>
    /\ \E i \in 1..Len(trace) :
            /\ trace[i].sink = 1
            /\ trace[i].op = "write"
            /\ trace[i].arg = <<" ", "b", " ", "a", " ">>
    /\ \E i \in 1..Len(trace) :
            /\ trace[i].sink = 0
            /\ trace[i].op = "indent"
            /\ trace[i].arg = <<"a", " ", "b", " ", "a", " ", "b">>

----------------------------------------------------------------------------
(* SpecDL: a visit of any small tree of description lists, with SUB as an  *)
(* element that collects                                                   *)

MaxDLNodes == 4

DLElements == {Element(name, <<>>) : name \in {"DL", "DT", "DD", "SUB"}}

\* <dl><sub><dt>a</dt></sub><dt>b</dt></dl>
CollectedTerm ==
    Element("DL", <<Element("SUB", <<Element("DT", <<Text(<<"a">>)>>)>>),
                    Element("DT", <<Text(<<"b">>)>>)>>)

\* <dl><dt>a b</dt><dd>c</dd><dd>d</dd><dt>e</dt></dl>
TermsAndDefinitions ==
    Element("DL", <<Element("DT", <<Text(<<"a", " ", "b">>)>>),
                    Element("DD", <<Text(<<"c">>)>>),
                    Element("DD", <<Text(<<"d">>)>>),
                    Element("DT", <<Text(<<"e">>)>>)>>)

DLDocuments ==
    Trees(DLElements, MaxDLNodes) \cup {CollectedTerm, TermsAndDefinitions}
        \cup CommonDocuments

InitDL == InitVisit(DLDocuments, {DefaultOptions})

SpecDL == InitDL /\ [][NextVisit]_vars

\* the current step belongs to a direct child of a DL that visitDL visits
\* with the Formatter as the sink: under the step are the return of the
\* child, the loop of visitChildren(DL), the end of visitDL and the return
\* of visit(DL)
InList ==
    LET n == Len(tasks)
    IN  /\ vstatus = "run"
        /\ sinks = <<>>
        /\ n >= 5
        /\ tasks[n - 1].k = "return"
        /\ tasks[n - 2].k = "children"
        /\ tasks[n - 2].node.nodeName = "DL"
        /\ tasks[n - 3].k = "endDL"
        /\ tasks[n - 4].k = "return"
        /\ tasks[n - 4].save.sinks = 0

\* the depth of the Formatter's stack when visit(DL) was called
ListBase == tasks[Len(tasks) - 4].save.depth

Added == SubSeq(trace', Len(trace) + 1, Len(trace'))

\* C24: while the direct DT and DD children of a description list are
\* visited on the Formatter, the list has one indent scope open when its
\* record says a term or definition was seen, and none otherwise.  A DT
\* that finds the scope open closes it (and never a scope that was open
\* when the list began), then opens a scope labelled with its collected
\* text; a DD that finds no scope open opens one without a label, a DD
\* that finds one open writes into it; the end of visitDL leaves the
\* Formatter's stack as deep as it was at the list's start.
C24_OneScopePerList ==
    /\ []((InList /\ Calling("tag", {"DT", "DD"})) =>
            /\ fmt.state # Undefined
            /\ Len(fmt.stateStack)
                    = ListBase + (IF listInfo.sawDT THEN 1 ELSE 0))
    /\ [][(InList /\ Calling("tag", {"DT"}) /\ vstatus' # "threw") =>
            /\ Added = (IF listInfo.sawDT
                        THEN <<[sink |-> 0, op |-> "dedent", arg |-> <<>>]>>
                        ELSE <<>>)
            /\ Len(fmt'.stateStack) = ListBase
            /\ fmt'.state # Undefined]_vars
    /\ [][(InList /\ At("collected") /\ CurrentTask.save = "DT"
                /\ vstatus' # "threw") =>
            /\ Added = <<[sink |-> 0, op |-> "indent",
                          arg |-> CollapseWS(Concat(sinks'[1].b))]>>
            /\ Len(fmt'.stateStack) = ListBase + 1
            /\ listInfo'.sawDT]_vars
    /\ [][(InList /\ Calling("tag", {"DD"}) /\ vstatus' # "threw") =>
            /\ Added = (IF listInfo.sawDT THEN <<>>
                        ELSE <<[sink |-> 0, op |-> "indent", arg |-> <<>>]>>)
            /\ Len(fmt'.stateStack) = ListBase + 1
            /\ listInfo'.sawDT]_vars
    /\ [][(At("endDL") /\ sinks = <<>> /\ vstatus' # "threw"
                /\ tasks[Len(tasks) - 1].save.sinks = 0) =>
            /\ Len(fmt'.stateStack) = tasks[Len(tasks) - 1].save.depth
            /\ fmt'.state # Undefined]_vars

----------------------------------------------------------------------------
(* SpecStream: any sequence of Formatter calls on a stream that completes  *)
(* its writes later                                                        *)

\* the stream calls back for the oldest write it has not completed: a
\* Writable takes the chunks one at a time in the order of the write()
\* calls, and its _write signals the end of each through callback
WriteCompleted ==
    /\ fmt.completed < Len(fmt.out)
    /\ fmt' = [fmt EXCEPT !.completed = @ + 1]
    /\ UNCHANGED <<options, hist, nops, mvars, vvars, gvars>>

NextStream ==
    \/ NextF
    \/ WriteCompleted

\* the layout of a line does not matter to the stream: wrapping is on
InitStream == InitF /\ options = DefaultOptions

SpecStream == InitStream /\ [][NextStream]_vars

\* the writes handed to the stream and not completed by it
Outstanding == Len(fmt.out) - fmt.completed

----------------------------------------------------------------------------
(* Claims about dedent() and about the re-dispatch of an element           *)

\* the calls made on the Formatter up to the i-th of the trace
CallsUpTo(i) == SubSeq(trace, 1, i)

\* C26: for every document, each dedent() the Visitor calls on the
\* Formatter finds a state on its stack (up to any point of the visit the
\* Formatter has had no more dedent() than indent() calls), so that the
\* Formatter's current state is always defined; also when a DT or DD was
\* visited under a collector and a later DT with the same listInfo is
\* visited under the Formatter.
C26_DedentMatched ==
    /\ fmt.state # Undefined
    /\ \A i \in 1..Len(trace) : Opens(CallsUpTo(i)) >= 0

\* SpecRedispatch: a visit of any small tree of elements that visitLANG=
\* or visitDIR= or both, or neither, dispatch again
MaxVisitNodes == 3

\* <span lang="en" dir="rtl"> is dispatched three times inside a Hebrew
\* element; dir="auto" stands for the current directionality
RedispatchElements ==
    {[Element("SPAN", <<>>) EXCEPT !.lang = a[1], !.dir = a[2]] :
        a \in {<<"", "">>, <<"he", "">>, <<"en", "rtl">>, <<"", "rtl">>,
               <<"", "auto">>}}

RedispatchDocuments ==
    Trees(RedispatchElements, MaxVisitNodes) \cup {HebrewThenSibling}
        \cup CommonDocuments

InitRedispatch == InitVisit(RedispatchDocuments, {DefaultOptions})

SpecRedispatch == InitRedispatch /\ [][NextVisit]_vars

\* the trees of elements that no handler but visitLANG=, visitDIR=, visitP
\* and visitChildren takes
RECURSIVE Plain(_)
Plain(n) ==
    \/ n.nodeType # "element"
    \/ /\ n.nodeName \in {"SPAN", "P"}
       /\ n.typeof = "" /\ n.rel = ""
       /\ \A i \in 1..Len(n.kids) : Plain(n.kids[i])

\* A bound on the steps visit(n) takes when the element may still be
\* dispatched again `rounds` times: a round is the step of visit, the
\* call of the handler, its tail and the return.  The body is the call of
\* the tag's handler, a call of this.format after the children, and the
\* loop over the children, each of which may take two rounds.
RECURSIVE StepsOf(_, _)
RECURSIVE LoopSteps(_, _)
StepsOf(n, rounds) ==
    IF n.nodeType # "element" THEN 2
    ELSE 4 * rounds + 4 + LoopSteps(n, 1)
LoopSteps(n, i) ==
    IF i > Len(n.kids) THEN 1
    ELSE 1 + StepsOf(n.kids[i], 2) + LoopSteps(n, i + 1)

\* the times visit can dispatch t.node again, read off the handler visit
\* chooses in the current state
RoundsLeft(h) == IF h.by = "lang" THEN 2 ELSE IF h.by = "dir" THEN 1 ELSE 0

TaskSteps(t) ==
    CASE t.k = "visit" ->
            StepsOf(t.node, RoundsLeft(Dispatch(t.node, currentLanguage,
                                                currentDirectionality)))
      [] t.k = "call" -> StepsOf(t.node, RoundsLeft(t.h)) - 2
      [] t.k = "children" -> LoopSteps(t.node, t.i)
      [] OTHER -> 1

RECURSIVE VisitRankFrom(_)
VisitRankFrom(i) ==
    IF i > Len(tasks) THEN 0 ELSE TaskSteps(tasks[i]) + VisitRankFrom(i + 1)

\* the steps left of the visit, at most
VisitRank == IF vstatus = "idle" THEN StepsOf(doc, 2) + 1 ELSE VisitRankFrom(1)

\* visit(node) was called by the handler whose tail is under it
CalledBy(tail) ==
    /\ At("visit")
    /\ Len(tasks) >= 2
    /\ tasks[Len(tasks) - 1].k = tail
    /\ tasks[Len(tasks) - 1].node = CurrentTask.node

Chosen == Dispatch(CurrentTask.node, currentLanguage, currentDirectionality)

\* C28: visit ends on every finite tree.  visit called again by
\* visitLANG= finds the current language equal to the element's lang and
\* does not choose visitLANG= again; called again by visitDIR= it finds
\* the current directionality equal to the element's dir and chooses
\* neither visitLANG= nor visitDIR=; so an element is dispatched at most
\* three times.  Every step of a visit lowers a natural number, the bound
\* on the steps left, and a visit that has run out of steps has ended.
C28_VisitTerminates ==
    /\ [](CalledBy("restoreLang") =>
            /\ currentLanguage = CurrentTask.node.lang
            /\ Chosen.by # "lang")
    /\ [](CalledBy("restoreDir") =>
            /\ currentDirectionality = CurrentTask.node.dir
            /\ Chosen.by \notin {"lang", "dir"})
    /\ [](Plain(doc) =>
            /\ VisitRank >= 0
            /\ vstatus # "threw"
            /\ (VisitRank = 0) <=> (vstatus = "done"))
    /\ [][Plain(doc) => VisitRank' < VisitRank]_vars

\* an element with lang and dir is visited for the third time, called by
\* visitDIR= that was called by the visit that visitLANG= called
C28_Witness ==
    /\ CalledBy("restoreDir")
    /\ Len(tasks) >= 4
    /\ tasks[Len(tasks) - 2].k = "return"
    /\ tasks[Len(tasks) - 3].k = "restoreLang"
    /\ tasks[Len(tasks) - 3].node = CurrentTask.node
    /\ CurrentTask.node.lang = "en"
    /\ CurrentTask.node.dir = "rtl"
    /\ currentLanguage = "en"
    /\ currentDirectionality = "rtl"
    /\ Chosen.by = "children"

====
